---- MODULE Spec2Model ----
(***************************************************************************)
(* Conversational intake core of the landscaping estimator: the dialogue   *)
(* state manager (src/src/conversationManager.ts), the local field         *)
(* extractor (src/unnamed/part_004, first variant) and the turn handler    *)
(* handleSend of the chat widget (src/src/quickReplies.ts).                *)
(*                                                                         *)
(* Encoding of JavaScript values.  A field that holds a string, an enum or *)
(* a boolean is a TLA+ string: "null" is null, "undef" is an absent key of *)
(* an ExtractedInfo, "true"/"false" are the booleans.  A numeric field is  *)
(* an integer: -1 is null, -2 is an absent key, every other number is the  *)
(* value in tenths (parseFloat("0.8") is 8, parseFloat("15") is 150), so   *)
(* that the one-decimal numbers of the utterances stay integers.           *)
(***************************************************************************)
EXTENDS Integers, Sequences, FiniteSets, TLC

VARIABLES
    state,             \* ConversationState held by the widget (useState)
    quickReplies,      \* field whose fallback quick replies are shown, or "none"
    pendingEstimates,  \* states captured by the generateEstimate timers not yet run
    estimateShown,     \* outcome of the last generateEstimate run
    last,              \* what the last handled turn did (asked field, input, remote outcome, branch)
    probe,             \* result of the last evaluation of a pure function on state
    intake,            \* the intake machine: state value, context, and the event sent last
    chat               \* the widget's input box, isProcessing flag and messageHistory

vars == <<state, quickReplies, pendingEstimates, estimateShown, last, probe, intake, chat>>

\* ------------------------------------------------------------------ values

Null == "null"
Undef == "undef"
NullN == 0 - 1
UndefN == 0 - 2

\* Bounds of the model (not program constants).
MaxRetry == 2
MaxPending == 1

\* JavaScript truthiness of a string-valued and of a numeric field.
TruthyS(v) == v \notin {Null, Undef, ""}
TruthyN(n) == n \notin {NullN, UndefN, 0}

Services == {"hardscaping", "decking", "softscaping", "mowing", "planting", "fencing", "framing"}

\* The fields a question can be about, as named by detectCurrentField.
QuestionFields ==
    {"service", "dimensions", "materialTier", "excavatorAccess", "deckHeight", "overgrown",
     "gateCount", "driveway", "slope", "demolition", "fullName", "contactPhone",
     "contactEmail", "userBudget", "postalCode", "unknown"}

NoRetries == [f \in QuestionFields |-> 0]

createInitialState ==
    [service |-> Null, area_m2 |-> NullN, length_m |-> NullN, width_m |-> NullN,
     materialTier |-> Null, hasExcavatorAccess |-> Null, hasDrivewayForSkip |-> Null,
     slopeLevel |-> Null, subBaseType |-> Null, existingDemolition |-> Null,
     deckHeight_m |-> NullN, overgrown |-> Null, gateCount |-> NullN,
     wantsDrainage |-> Null, wantsLedLighting |-> Null,
     certaintyLevel |-> 0, awaitingEstimate |-> FALSE,
     retryCount |-> NoRetries, lastQuestionField |-> Null, showQuickReplies |-> FALSE,
     budgetAligns |-> Null, contactPhone |-> Null, contactEmail |-> Null,
     fullName |-> Null, userBudget |-> NullN, postalCode |-> Null,
     projectStartTiming |-> Null, groundSoilType |-> Null]

\* ------------------------------------------------------------- certainty

\* The percentage cut off instead of rounded.
FloorPercent(x, y) == (100 * x) \div y

\* Math.round(x / y * 100) for x >= 0, y > 0: round half up.
RoundPercent(x, y) == (200 * x + y) \div (2 * y)

CertaintyScore(s) ==
      (IF TruthyS(s.service) THEN 25 ELSE 0)
    + (IF TruthyN(s.area_m2) \/ (TruthyN(s.length_m) /\ TruthyN(s.width_m)) THEN 30 ELSE 0)
    + (IF TruthyS(s.materialTier) THEN 20 ELSE 0)
    + (IF s.service = "mowing"
         THEN (IF s.overgrown # Null THEN 25 ELSE 0)
       ELSE IF s.service \in {"planting", "softscaping"}
         THEN (IF TruthyS(s.slopeLevel) THEN 5 ELSE 0)
            + (IF s.hasDrivewayForSkip # Null THEN 5 ELSE 0)
       ELSE (IF s.hasExcavatorAccess # Null THEN 10 ELSE 0)
          + (IF s.hasDrivewayForSkip # Null THEN 5 ELSE 0)
          + (IF TruthyS(s.slopeLevel) THEN 5 ELSE 0)
          + (IF s.existingDemolition # Null THEN 5 ELSE 0))

\* The maximum with the service-dependent weights counted once the service is known.
MaxScoreOfKnownService(s) ==
    25 + 30 + 20 +
    (IF s.service = Null THEN 0
     ELSE IF s.service = "mowing" THEN 25
     ELSE IF s.service \in {"planting", "softscaping"} THEN 10
     ELSE 10 + 5 + 5 + 5)

CertaintyMaxScore(s) ==
    25 + 30 + 20 +
    (IF s.service = "mowing" THEN 25
     ELSE IF s.service \in {"planting", "softscaping"} THEN 10
     ELSE 10 + 5 + 5 + 5)

calculateCertainty(s) == RoundPercent(CertaintyScore(s), CertaintyMaxScore(s))

\* ---------------------------------------------------- question sequencing

excavationServices == {"hardscaping", "decking", "fencing", "framing"}
heavyWorkWithoutSoftscaping == {"hardscaping", "decking", "fencing", "framing"}
heavyWorkServices == {"hardscaping", "decking", "fencing", "framing", "softscaping"}

detectCurrentField(s) ==
    IF ~TruthyS(s.service) THEN "service"
    ELSE IF ~TruthyN(s.area_m2) /\ ~TruthyN(s.length_m) /\ ~TruthyN(s.width_m) THEN "dimensions"
    ELSE IF ~TruthyS(s.materialTier) THEN "materialTier"
    ELSE IF s.hasExcavatorAccess = Null /\ s.service \in excavationServices THEN "excavatorAccess"
    ELSE IF s.service = "decking" /\ s.deckHeight_m = NullN THEN "deckHeight"
    ELSE IF s.service = "mowing" /\ s.overgrown = Null THEN "overgrown"
    ELSE IF s.service = "fencing" /\ s.gateCount = NullN THEN "gateCount"
    ELSE IF s.hasDrivewayForSkip = Null /\ s.service \in heavyWorkServices THEN "driveway"
    ELSE IF s.slopeLevel = Null /\ s.service \in heavyWorkServices THEN "slope"
    ELSE IF s.existingDemolition = Null /\ s.service \in {"hardscaping", "decking"} THEN "demolition"
    ELSE IF ~TruthyS(s.fullName) THEN "fullName"
    ELSE IF ~TruthyS(s.contactPhone) THEN "contactPhone"
    ELSE IF ~TruthyS(s.contactEmail) THEN "contactEmail"
    ELSE IF s.userBudget = NullN THEN "userBudget"
    ELSE IF ~TruthyS(s.postalCode) THEN "postalCode"
    ELSE "unknown"

\* getNextQuestion returns the question text; the model returns the name of the
\* stage the text asks about ("none" for the null result).
getNextQuestion(s) ==
    IF ~TruthyS(s.service) THEN "service"
    ELSE IF ~TruthyN(s.area_m2) /\ ~TruthyN(s.length_m) /\ ~TruthyN(s.width_m) THEN "dimensions"
    ELSE IF ~TruthyS(s.materialTier) THEN "materialTier"
    ELSE IF s.hasExcavatorAccess = Null /\ s.service \in excavationServices THEN "excavatorAccess"
    ELSE IF s.service = "decking" /\ s.deckHeight_m = NullN THEN "deckHeight"
    ELSE IF s.service = "mowing" /\ s.overgrown = Null THEN "overgrown"
    ELSE IF s.service = "fencing" /\ s.gateCount = NullN THEN "gateCount"
    ELSE IF s.hasDrivewayForSkip = Null /\ s.service \in heavyWorkServices THEN "driveway"
    ELSE IF s.slopeLevel = Null /\ s.service \in heavyWorkServices THEN "slope"
    ELSE IF s.existingDemolition = Null /\ s.service \in {"hardscaping", "decking"} THEN "demolition"
    ELSE IF ~TruthyS(s.fullName) THEN "fullName"
    ELSE IF ~TruthyS(s.contactPhone) THEN "contactPhone"
    ELSE IF ~TruthyS(s.contactEmail) THEN "contactEmail"
    ELSE IF s.userBudget = NullN THEN "userBudget"
    ELSE IF ~TruthyS(s.postalCode) THEN "postalCode"
    ELSE "none"

\* ------------------------------------------------------ ready for estimate

heavyAccessServices == {"hardscaping", "decking", "fencing", "framing"}
groundWithoutSoftscaping == {"hardscaping", "decking", "framing"}
groundServices == {"hardscaping", "decking", "softscaping", "framing"}

\* Readiness decided without looking at the budget.
isReadyWithoutBudget(s) ==
    IF s.postalCode = Null THEN FALSE
    ELSE IF s.hasExcavatorAccess = Null /\ s.service \in heavyAccessServices THEN FALSE
    ELSE IF s.slopeLevel = Null /\ s.service \in {"hardscaping", "decking", "softscaping", "framing"}
      THEN FALSE
    ELSE IF s.service = "fencing" /\ s.gateCount = NullN THEN FALSE
    ELSE IF s.service = "decking" /\ s.deckHeight_m = NullN THEN FALSE
    ELSE s.certaintyLevel >= 85

isReadyForEstimate(s) ==
    IF s.userBudget = NullN \/ s.postalCode = Null THEN FALSE
    ELSE IF s.hasExcavatorAccess = Null /\ s.service \in heavyAccessServices THEN FALSE
    ELSE IF s.slopeLevel = Null /\ s.service \in groundServices THEN FALSE
    ELSE IF s.service = "fencing" /\ s.gateCount = NullN THEN FALSE
    ELSE IF s.service = "decking" /\ s.deckHeight_m = NullN THEN FALSE
    ELSE s.certaintyLevel >= 85

\* ------------------------------------------------------------- extraction

\* An ExtractedInfo with no key set.
NoExtraction ==
    [service |-> Undef, area_m2 |-> UndefN, length_m |-> UndefN, width_m |-> UndefN,
     materialTier |-> Undef, hasExcavatorAccess |-> Undef, hasDrivewayForSkip |-> Undef,
     slopeLevel |-> Undef, subBaseType |-> Undef, existingDemolition |-> Undef,
     deckHeight_m |-> UndefN, overgrown |-> Undef, gateCount |-> UndefN,
     wantsDrainage |-> Undef, wantsLedLighting |-> Undef, budgetAligns |-> Undef,
     fullName |-> Undef, userBudget |-> UndefN, postalCode |-> Undef,
     contactEmail |-> Undef, contactPhone |-> Undef, projectStartTiming |-> Undef,
     groundSoilType |-> Undef, explicitBudget |-> Undef]

NumericKeys == {"area_m2", "length_m", "width_m", "deckHeight_m", "gateCount", "userBudget"}

\* Object.keys(extracted).length > 0
hasExtractedInfo(e) ==
    \E k \in DOMAIN e : IF k \in NumericKeys THEN e[k] # UndefN ELSE e[k] # Undef

Bool(b) == IF b THEN "true" ELSE "false"

\* An utterance is given by the lexical facts the extractor's tests read off it:
\*   text    the trimmed message, msg its lower-cased form, upper its upper-cased form
\*   kw      the keyword families of which msg includes a member (one tag per
\*           if-branch of the extractor, named after the value the branch assigns)
\*   dimL, dimW   the two numbers of the first "N x M" match (UndefN: no match)
\*   num     the first number of the message, which is what heightPattern and
\*           budgetPattern capture (UndefN: the message has no digit)
\*   areaNum, linearNum   the number captured by areaPattern / linearPattern
\*   weeks, months, gateNum   the captures of weeksPattern, monthsPattern, gatePattern
\*   words, chars, digits   wordCount, trimmed length, digitCount
\*   phone, phoneDigits, email, postcode   the matches of the contact patterns
\*   unitFollows, startsWithZero, simple   the budget guards and handleSend's
\*           /^(yes|no|yep|nope|\d+(\.\d+)?)$/i test
Silence ==
    [text |-> "", msg |-> "", upper |-> "", kw |-> {}, dimL |-> UndefN, dimW |-> UndefN,
     num |-> UndefN, areaNum |-> UndefN, linearNum |-> UndefN, weeks |-> UndefN,
     months |-> FALSE, gateNum |-> UndefN, words |-> 1, chars |-> 0, digits |-> 0,
     phone |-> "", phoneDigits |-> 0, email |-> "", postcode |-> "",
     unitFollows |-> FALSE, startsWithZero |-> FALSE, simple |-> FALSE]

isAffirmative(u) ==
    u.msg \in {"yes", "yep", "yeah", "yeh", "ye", "sure", "ok"} \/ "affirm:phrase" \in u.kw

isNegative(u) ==
    u.msg \in {"no", "nope", "nah", "na"} \/ "negate:phrase" \in u.kw

ExtractService(u) ==
    IF "svc:hardscaping" \in u.kw THEN "hardscaping"
    ELSE IF "svc:decking" \in u.kw THEN "decking"
    ELSE IF "svc:mowing" \in u.kw THEN "mowing"
    ELSE IF "svc:planting" \in u.kw THEN "planting"
    ELSE IF "svc:fencing" \in u.kw THEN "fencing"
    ELSE IF "svc:framing" \in u.kw THEN "framing"
    ELSE IF "svc:softscaping" \in u.kw THEN "softscaping"
    ELSE Undef

\* DECK HEIGHT block: the height taken from the message, UndefN when isHeight stays false.
ExtractDeckHeight(u) ==
    IF u.num # UndefN
      THEN IF ("height:kw" \in u.kw \/ (u.num < 30 /\ u.num > 0)) /\ u.num < 100
             THEN u.num ELSE UndefN
    ELSE IF "height:low" \in u.kw THEN 1
    ELSE UndefN

ExtractArea(u) ==
    IF ExtractDeckHeight(u) # UndefN THEN UndefN
    ELSE IF "fence" \in u.kw /\ u.linearNum # UndefN THEN u.linearNum
    ELSE IF u.areaNum # UndefN /\ ~TruthyN(u.dimL) /\ "height:actually" \notin u.kw THEN u.areaNum
    ELSE UndefN

ExtractTier(u) ==
    IF "tier:standard" \in u.kw THEN "standard"
    ELSE IF "tier:luxury" \in u.kw THEN "luxury"
    ELSE IF "tier:premium" \in u.kw THEN "premium"
    ELSE Undef

ExtractExcavatorAccess(u) ==
    IF "access:no" \in u.kw \/ isNegative(u) THEN "false"
    ELSE IF "access:yes" \in u.kw \/ isAffirmative(u) THEN "true"
    ELSE Undef

ExtractDriveway(u) ==
    IF "drive:no" \in u.kw \/ isNegative(u) THEN "false"
    ELSE IF "drive:yes" \in u.kw \/ isAffirmative(u) THEN "true"
    ELSE Undef

ExtractSlope(u) ==
    IF "slope:flat" \in u.kw THEN "flat"
    ELSE IF "slope:steep" \in u.kw THEN "steep"
    ELSE IF "slope:moderate" \in u.kw THEN "moderate"
    ELSE Undef

ExtractDemolition(u) ==
    IF "demo:yes" \in u.kw \/ isAffirmative(u) THEN "true"
    ELSE IF "demo:no" \in u.kw \/ isNegative(u) THEN "false"
    ELSE Undef

ExtractOvergrown(u) ==
    IF u.months THEN "true"
    ELSE IF u.weeks # UndefN THEN Bool(u.weeks > 2)
    ELSE IF "grown:yes" \in u.kw THEN "true"
    ELSE IF "grown:no" \in u.kw THEN "false"
    ELSE Undef

ExtractGateCount(u) ==
    IF u.gateNum # UndefN THEN u.gateNum
    ELSE IF "gate:one" \in u.kw THEN 1
    ELSE IF "gate:two" \in u.kw THEN 2
    ELSE IF "gate:none" \in u.kw THEN 0
    ELSE UndefN

ExtractBudgetAligns(u) ==
    IF "align:yes" \in u.kw THEN "true"
    ELSE IF "align:no" \in u.kw THEN "false"
    ELSE Undef

ExtractFullName(u) ==
    IF ("name:intro" \in u.kw \/ (u.words <= 4 /\ u.words >= 1))
       /\ u.chars > 2 /\ u.chars < 50
       /\ ~(u.digits > 5)
       /\ "name:blocker" \notin u.kw
      THEN u.text ELSE Undef

ExtractPhone(u) == IF u.phone # "" /\ u.phoneDigits >= 9 THEN u.phone ELSE Undef

ExtractEmail(u) == IF u.email # "" THEN u.email ELSE Undef

ExtractPostcode(u) == IF u.postcode # "" THEN u.postcode ELSE Undef

\* BUDGET block: the amount accepted (in tenths of a pound), UndefN when none is.
ExtractBudget(u) ==
    LET hasCurrency == "currency" \in u.kw
        amount == IF "k" \in u.kw THEN u.num * 1000 ELSE u.num
    IN  IF (ExtractPhone(u) = Undef \/ hasCurrency)
           /\ u.num # UndefN
           /\ ~(u.startsWithZero /\ ~hasCurrency)
           /\ ~u.unitFollows
           /\ amount > 100 * 10 /\ amount < 2000000 * 10
          THEN amount ELSE UndefN

extractLocalInformation(u) ==
    [NoExtraction EXCEPT
        !.service = ExtractService(u),
        !.length_m = u.dimL,
        !.width_m = u.dimW,
        !.deckHeight_m = ExtractDeckHeight(u),
        !.area_m2 = ExtractArea(u),
        !.materialTier = ExtractTier(u),
        !.hasExcavatorAccess = ExtractExcavatorAccess(u),
        !.hasDrivewayForSkip = ExtractDriveway(u),
        !.slopeLevel = ExtractSlope(u),
        !.existingDemolition = ExtractDemolition(u),
        !.overgrown = ExtractOvergrown(u),
        !.gateCount = ExtractGateCount(u),
        !.budgetAligns = ExtractBudgetAligns(u),
        !.fullName = ExtractFullName(u),
        !.contactPhone = ExtractPhone(u),
        !.contactEmail = ExtractEmail(u),
        !.postalCode = ExtractPostcode(u),
        !.userBudget = ExtractBudget(u),
        !.explicitBudget = IF ExtractBudget(u) # UndefN THEN Bool("currency" \in u.kw) ELSE Undef]

calculateConfidence(e) ==
    LET c == (IF TruthyS(e.service) THEN 30 ELSE 0)
           + (IF TruthyN(e.area_m2) \/ (TruthyN(e.length_m) /\ TruthyN(e.width_m)) THEN 40 ELSE 0)
           + (IF TruthyS(e.materialTier) THEN 20 ELSE 0)
           + (IF e.hasExcavatorAccess # Undef THEN 5 ELSE 0)
           + (IF TruthyS(e.slopeLevel) THEN 5 ELSE 0)
    IN  IF c < 100 THEN c ELSE 100

\* ------------------------------------------------------------ state update

\* Every name taken as introduced.
NameAlwaysIntroduced(name) == name # ""

\* extracted.fullName.toLowerCase().includes('name is'), over the names the modelled
\* replies and remote answers yield.
IncludesNameIs(name) == name \in {"my name is John"}

\* Every token taken as a strict postcode.
AnyToken(p) == p # ""

\* strictUkPattern.test(postcode), over the postcode tokens the modelled
\* utterances can yield.
strictUkPattern(p) == p \in {"SL4 1AA"}

\* The two lengths added up.
HalfPerimeter(l, w) == l + w

\* length_m * width_m, both in tenths, as a number of tenths.
Product(l, w) == (l * w) \div 10

\* The merged state with the score it had.
ScoreKept(u1) == u1

WithCertainty(u1) == [u1 EXCEPT !.certaintyLevel = calculateCertainty(u1)]

\* Every extracted budget taken.
BudgetAlwaysAccepted(e, currentField) == e.userBudget # UndefN

\* isBudgetQuestion || extracted.explicitBudget
BudgetAccepted(e, currentField) == currentField = "userBudget" \/ e.explicitBudget = "true"

MergedFacts(s, e, currentField, area, len, wid) ==
             [s EXCEPT
            !.service = IF TruthyS(e.service) THEN e.service ELSE @,
            !.length_m = len,
            !.width_m = wid,
            !.materialTier = IF TruthyS(e.materialTier) THEN e.materialTier ELSE @,
            !.hasExcavatorAccess = IF e.hasExcavatorAccess # Undef THEN e.hasExcavatorAccess ELSE @,
            !.hasDrivewayForSkip = IF e.hasDrivewayForSkip # Undef THEN e.hasDrivewayForSkip ELSE @,
            !.slopeLevel = IF TruthyS(e.slopeLevel) THEN e.slopeLevel ELSE @,
            !.subBaseType = IF TruthyS(e.subBaseType) THEN e.subBaseType ELSE @,
            !.existingDemolition = IF e.existingDemolition # Undef THEN e.existingDemolition ELSE @,
            !.deckHeight_m =
                IF e.deckHeight_m # UndefN /\ (s.service = "decking" \/ e.service = "decking")
                  THEN e.deckHeight_m ELSE @,
            !.overgrown = IF e.overgrown # Undef THEN e.overgrown ELSE @,
            !.gateCount = IF TruthyN(e.gateCount) THEN e.gateCount ELSE @,
            !.wantsDrainage = IF e.wantsDrainage # Undef THEN e.wantsDrainage ELSE @,
            !.wantsLedLighting = IF e.wantsLedLighting # Undef THEN e.wantsLedLighting ELSE @,
            !.budgetAligns = IF e.budgetAligns # Undef THEN e.budgetAligns ELSE @,
            !.fullName =
                IF TruthyS(e.fullName) /\ (currentField = "fullName" \/ IncludesNameIs(e.fullName))
                  THEN e.fullName ELSE @,
            !.userBudget =
                IF e.userBudget # UndefN /\ BudgetAccepted(e, currentField)
                  THEN e.userBudget ELSE @,
            !.contactEmail = IF TruthyS(e.contactEmail) THEN e.contactEmail ELSE @,
            !.contactPhone = IF TruthyS(e.contactPhone) THEN e.contactPhone ELSE @,
            !.postalCode =
                IF TruthyS(e.postalCode) /\ (strictUkPattern(e.postalCode) \/ currentField = "postalCode")
                  THEN e.postalCode ELSE @,
            !.projectStartTiming = IF TruthyS(e.projectStartTiming) THEN e.projectStartTiming ELSE @,
            !.groundSoilType = IF TruthyS(e.groundSoilType) THEN e.groundSoilType ELSE @,
            !.area_m2 = IF TruthyN(len) /\ TruthyN(wid) /\ ~TruthyN(area) THEN Product(len, wid) ELSE area]

\* The merged fields with the score of the state before the merge.
MergeWithScoreBefore(s, e, currentField, area, len, wid) ==
    [MergedFacts(s, e, currentField, area, len, wid) EXCEPT !.certaintyLevel = calculateCertainty(s)]

MergeFields(s, e, currentField, area, len, wid) ==
    WithCertainty(MergedFacts(s, e, currentField, area, len, wid))

\* The area with every truthy extracted area taken.
AreaAlwaysTaken(s, e) == IF TruthyN(e.area_m2) THEN e.area_m2 ELSE s.area_m2

\* The area after the safeguard against tiny numbers (2 is 20 tenths).
AcceptedArea(s, e) ==
    IF TruthyN(e.area_m2)
      THEN IF TruthyN(s.area_m2) /\ s.area_m2 > 20 /\ e.area_m2 < 20
              /\ ~(s.lastQuestionField = "dimensions" \/ ~TruthyN(s.area_m2))
             THEN s.area_m2 ELSE e.area_m2
      ELSE s.area_m2

\* const currentField = state.lastQuestionField || detectCurrentField(state)
MergeCurrentField(s) ==
    IF TruthyS(s.lastQuestionField) THEN s.lastQuestionField ELSE detectCurrentField(s)

updateStateWithExtraction(s, e) ==
    MergeFields(s, e,
        MergeCurrentField(s),
        AcceptedArea(s, e),
        IF TruthyN(e.length_m) THEN e.length_m ELSE s.length_m,
        IF TruthyN(e.width_m) THEN e.width_m ELSE s.width_m)

\* ----------------------------------------------------------- retry tracking

isRelevantFieldExtracted(currentField, e, old, new) ==
    CASE currentField = "service" -> new.service # Null /\ old.service = Null
      [] currentField = "dimensions" ->
            (new.area_m2 # NullN /\ old.area_m2 = NullN) \/ (new.length_m # NullN /\ old.length_m = NullN)
      [] currentField = "materialTier" -> new.materialTier # Null /\ old.materialTier = Null
      [] currentField = "excavatorAccess" -> new.hasExcavatorAccess # Null /\ old.hasExcavatorAccess = Null
      [] currentField = "driveway" -> new.hasDrivewayForSkip # Null /\ old.hasDrivewayForSkip = Null
      [] currentField = "slope" -> new.slopeLevel # Null /\ old.slopeLevel = Null
      [] currentField = "demolition" -> new.existingDemolition # Null /\ old.existingDemolition = Null
      [] currentField = "deckHeight" -> new.deckHeight_m # NullN /\ old.deckHeight_m = NullN
      [] currentField = "overgrown" -> new.overgrown # Null /\ old.overgrown = Null
      [] currentField = "gateCount" -> new.gateCount # NullN /\ old.gateCount = NullN
      [] currentField = "fullName" -> new.fullName # Null /\ old.fullName = Null
      [] currentField = "contactPhone" -> new.contactPhone # Null /\ old.contactPhone = Null
      [] currentField = "contactEmail" -> new.contactEmail # Null /\ old.contactEmail = Null
      [] currentField = "userBudget" -> new.userBudget # NullN /\ old.userBudget = NullN
      [] currentField = "postalCode" -> new.postalCode # Null /\ old.postalCode = Null
      [] OTHER -> hasExtractedInfo(e)

\* The counter raised without a note of the field asked.
incrementWithoutField(s, field) ==
    [s EXCEPT !.retryCount = [@ EXCEPT ![field] = s.retryCount[field] + 1],
              !.showQuickReplies = TRUE]

incrementRetryCount(s, field) ==
    LET currentCount == s.retryCount[field]
    IN  [s EXCEPT !.retryCount = [@ EXCEPT ![field] = currentCount + 1],
                  !.lastQuestionField = field,
                  !.showQuickReplies = (currentCount >= 0)]

\* The counters cleared, the field asked last kept.
resetKeepingField(s) == [s EXCEPT !.retryCount = NoRetries, !.showQuickReplies = FALSE]

resetRetryCount(s) ==
    [s EXCEPT !.retryCount = NoRetries, !.showQuickReplies = FALSE, !.lastQuestionField = Null]

\* ---------------------------------------------------------- modelled inputs

\* A message of one word with no digit and no keyword: the extractor takes it as a
\* name and as a loose postcode token only.
Word(text, msg, upper, chars) ==
    [Silence EXCEPT !.text = text, !.msg = msg, !.upper = upper, !.chars = chars,
                    !.postcode = upper]

Phrase(text, msg, upper, words, chars, token, kw) ==
    [Silence EXCEPT !.text = text, !.msg = msg, !.upper = upper, !.words = words,
                    !.chars = chars, !.postcode = token, !.kw = kw]

\* The replies a user gives in the modelled conversations.  Several are the literals
\* of getFallbackQuickReplies.
Utterances ==
    { [Word("patio", "patio", "PATIO", 5) EXCEPT !.kw = {"svc:hardscaping"}],
      Phrase("lawn mowing", "lawn mowing", "LAWN MOWING", 2, 11, "LAWN", {"svc:mowing"}),
      Phrase("last week", "last week", "LAST WEEK", 2, 9, "LAST WEEK", {"grown:no", "k"}),
      [Phrase("15 square meters", "15 square meters", "15 SQUARE METERS", 3, 16, "15 SQUARE", {})
          EXCEPT !.num = 150, !.areaNum = 150, !.digits = 2, !.unitFollows = TRUE],
      Phrase("indian sandstone", "indian sandstone", "INDIAN SANDSTONE", 2, 16, "INDIAN",
             {"tier:premium"}),
      [Word("yes", "yes", "YES", 3) EXCEPT !.kw = {"align:yes"}, !.simple = TRUE],
      [Word("no", "no", "NO", 2) EXCEPT !.postcode = "", !.simple = TRUE],
      Phrase("narrow gate", "narrow gate", "NARROW GATE", 2, 11, "NARROW", {"access:no"}),
      Phrase("on street", "on street", "ON STREET", 2, 9, "ON STREET", {"drive:no"}),
      Phrase("flat ground", "flat ground", "FLAT GROUND", 2, 11, "FLAT",
             {"slope:flat", "height:kw"}),
      Phrase("John Smith", "john smith", "JOHN SMITH", 2, 10, "JOHN SMITH", {}),
      [Word("07700900000", "07700900000", "07700900000", 11)
          EXCEPT !.num = 2000000000, !.digits = 11, !.phone = "07700900000", !.phoneDigits = 11,
                 !.postcode = "", !.startsWithZero = TRUE, !.simple = TRUE],
      [Word("user@example.com", "user@example.com", "USER@EXAMPLE.COM", 16)
          EXCEPT !.kw = {"name:blocker"}, !.email = "user@example.com", !.postcode = "USER"],
      [Word("£5000", "£5000", "£5000", 5)
          EXCEPT !.kw = {"currency"}, !.num = 50000, !.digits = 4, !.postcode = "5000"],
      [Phrase("SL4 1AA", "sl4 1aa", "SL4 1AA", 2, 7, "SL4 1AA", {})
          EXCEPT !.num = 40, !.digits = 2],
      [Word("N1", "n1", "N1", 2) EXCEPT !.num = 10, !.digits = 1, !.postcode = ""],
      [Word("5000", "5000", "5000", 4) EXCEPT !.num = 50000, !.digits = 4, !.simple = TRUE],
      Phrase("my name is John", "my name is john", "MY NAME IS JOHN", 4, 15, "MY NAME IS",
             {"name:intro"}),
      [Phrase("5m by 3m", "5m by 3m", "5M BY 3M", 3, 8, "5M BY 3M", {})
          EXCEPT !.dimL = 50, !.dimW = 30, !.num = 50, !.areaNum = 50, !.digits = 2,
                 !.unitFollows = TRUE],
      [Phrase("5m by 3m fence", "5m by 3m fence", "5M BY 3M FENCE", 4, 14, "5M BY 3M",
              {"svc:fencing", "fence"})
          EXCEPT !.dimL = 50, !.dimW = 30, !.num = 50, !.areaNum = 50, !.linearNum = 50,
                 !.digits = 2, !.unitFollows = TRUE],
      Phrase("let me type it", "let me type it", "LET ME TYPE IT", 4, 14, "LET ME", {}),
      Phrase("one gate", "one gate", "ONE GATE", 2, 8, "ONE GATE", {"gate:one"}),
      Phrase("no gates", "no gates", "NO GATES", 2, 8, "NO GATES",
             {"gate:none", "negate:phrase", "align:no"}),
      Phrase("three gates", "three gates", "THREE GATES", 2, 11, "THREE", {}),
      [Word("£0", "£0", "£0", 2)
          EXCEPT !.kw = {"currency"}, !.num = 0, !.digits = 1, !.postcode = ""],
      [Phrase("2 square meters", "2 square meters", "2 SQUARE METERS", 3, 15, "2 SQUARE", {})
          EXCEPT !.num = 20, !.areaNum = 20, !.digits = 1, !.unitFollows = TRUE] }

UtteranceOf(text) == CHOOSE u \in Utterances : u.text = text

\* What the call of /api/conversation can come to: not made (local extraction was
\* enough), fetch rejects, a non-OK status, a body response.json() cannot parse, or
\* an OK answer carrying data.extracted: {} (the endpoint's own fallback answer when
\* the model's output does not parse), the documented answer format with every key
\* null, or the same with a slope and a width given.
DocumentedNulls ==
    [NoExtraction EXCEPT
        !.service = Null, !.area_m2 = NullN, !.length_m = NullN, !.width_m = NullN,
        !.materialTier = Null, !.hasExcavatorAccess = Null, !.hasDrivewayForSkip = Null,
        !.slopeLevel = Null, !.subBaseType = Null, !.existingDemolition = Null,
        !.deckHeight_m = NullN, !.overgrown = Null, !.gateCount = NullN,
        !.wantsDrainage = Null, !.wantsLedLighting = Null, !.fullName = Null,
        !.contactPhone = Null, !.contactEmail = Null, !.userBudget = NullN,
        !.projectStartTiming = Null, !.groundSoilType = Null]

RemoteAnswers ==
    [ skipped |-> NoExtraction,
      rejected |-> NoExtraction,
      status |-> NoExtraction,
      unparsable |-> NoExtraction,
      empty |-> NoExtraction,
      nulls |-> DocumentedNulls,
      sloped |-> [DocumentedNulls EXCEPT !.slopeLevel = "moderate", !.width_m = 30],
      tiny |-> [NoExtraction EXCEPT !.area_m2 = 15],
      volunteered |-> [NoExtraction EXCEPT !.area_m2 = 0, !.fullName = "Jane Doe",
                                            !.userBudget = 30000, !.postalCode = "3525"] ]

RemoteFailures == {"rejected", "status", "unparsable"}
RemoteOutcomes == {"rejected", "status", "unparsable", "empty", "nulls", "sloped"}

\* With the answers that carry facts nobody asked for: an area of 1.5, and a name, a
\* budget, a loose postcode token and an area of 0.
WiderOutcomes == RemoteOutcomes \cup {"tiny", "volunteered"}

\* extracted = { ...extracted, ...apiExtracted }
Spread(local, api) ==
    [k \in DOMAIN local |->
        IF (IF k \in NumericKeys THEN api[k] # UndefN ELSE api[k] # Undef) THEN api[k] ELSE local[k]]

\* ------------------------------------------------------------ the turn

\* extractLocalInformation over the modelled replies, tabulated by reply text.
localExtraction ==
    [t \in {u.text : u \in Utterances} |-> extractLocalInformation(UtteranceOf(t))]

\* Whether handleSend skips the remote call.
useLocalOnly(s, u) ==
    LET local == localExtraction[u.text]
        currentField == detectCurrentField(s)
    IN  \/ isRelevantFieldExtracted(currentField, local, s, updateStateWithExtraction(s, local))
        \/ calculateConfidence(local) > 50
        \/ u.simple

\* The outcomes the remote call of a turn can have.
RemoteFor(s, u) == IF useLocalOnly(s, u) THEN {"skipped"} ELSE RemoteOutcomes

\* The extraction started afresh for the remote call: the local one is lost.
ExtractedAfresh(u, r) == IF r = "skipped" THEN localExtraction[u.text] ELSE RemoteAnswers[r]

\* The extraction handleSend merges: the local one, with the remote one spread over
\* it when the call was made and answered with an OK status and a parsable body.
TurnExtracted(u, r) ==
    IF r \in RemoteFailures \/ r = "skipped"
      THEN localExtraction[u.text]
      ELSE Spread(localExtraction[u.text], RemoteAnswers[r])

\* The retry branches without the forced acceptance of a postcode.
BranchWithoutForce(currentField, relevantFieldExtracted, u) ==
    IF ~relevantFieldExtracted THEN "retry" ELSE "understood"

\* Which of the three retry branches handleSend takes.
TurnBranch(currentField, relevantFieldExtracted, u) ==
    IF currentField = "postalCode" /\ ~relevantFieldExtracted /\ u.chars > 1 THEN "forced"
    ELSE IF ~relevantFieldExtracted THEN "retry"
    ELSE "understood"

\* The state handleSend calls stateWithRetry.
stateWithRetry(branch, updatedState, currentField, u) ==
    IF branch = "forced" THEN resetRetryCount([updatedState EXCEPT !.postalCode = u.upper])
    ELSE IF branch = "retry" THEN incrementRetryCount(updatedState, currentField)
    ELSE resetRetryCount(updatedState)

\* The kind of agent message handleSend appends.
TurnReply(sr) ==
    IF isReadyForEstimate(sr) /\ getNextQuestion(sr) = "none" THEN "handover"
    ELSE IF getNextQuestion(sr) # "none"
      THEN (IF sr.showQuickReplies THEN "apology" ELSE "question")
    ELSE "tellmore"

HandleSendWith(u, r) ==
    \E currentField \in {detectCurrentField(state)} :
    \E extracted \in {TurnExtracted(u, r)} :
    \E updatedState \in {updateStateWithExtraction(state, extracted)} :
    \E relevant \in {isRelevantFieldExtracted(currentField, extracted, state, updatedState)} :
    \E branch \in {TurnBranch(currentField, relevant, u)} :
    \E sr \in {stateWithRetry(branch, updatedState, currentField, u)} :
    \E reply \in {TurnReply(sr)} :
        /\ branch = "retry" => state.retryCount[currentField] < MaxRetry
        /\ reply = "handover" => Len(pendingEstimates) < MaxPending
        /\ state' = IF reply = "handover" THEN [sr EXCEPT !.awaitingEstimate = TRUE] ELSE sr
        /\ quickReplies' =
              IF branch = "retry" THEN currentField
              ELSE IF branch = "understood" THEN "none"
              ELSE quickReplies
        /\ pendingEstimates' =
              IF reply = "handover" THEN Append(pendingEstimates, sr) ELSE pendingEstimates
        /\ last' = [asked |-> currentField, input |-> u.text, remote |-> r,
                    branch |-> branch, reply |-> reply]
        /\ UNCHANGED <<estimateShown, probe, intake>>

\* The values of the buttons getFallbackQuickReplies(field, state) offers.
getFallbackQuickReplies(field, s) ==
    CASE field = "service" ->
            {"patio", "decking", "lawn mowing", "landscaping", "planting", "fencing", "pergola"}
      [] field = "dimensions" ->
            {"15 square meters", "35 square meters", "75 square meters", "120 square meters",
             "let me type it"}
      [] field = "materialTier" ->
            IF s.service = "hardscaping"
              THEN {"basic concrete pavers", "indian sandstone", "porcelain paving"}
            ELSE IF s.service = "decking"
              THEN {"treated softwood", "composite decking", "ipe hardwood"}
            ELSE {"budget option", "mid range", "premium quality"}
      [] field = "excavatorAccess" -> {"yes wide access", "narrow gate"}
      [] field = "driveway" -> {"yes driveway", "on street"}
      [] field = "slope" -> {"flat ground", "moderate slope", "steep slope"}
      [] field = "demolition" -> {"yes need to remove existing", "no nothing there"}
      [] field = "deckHeight" ->
            {"0.3 meters high", "0.8 meters high", "1.2 meters high", "2 meters high"}
      [] field = "overgrown" -> {"last week", "3 weeks ago"}
      [] field = "gateCount" -> {"no gates", "one gate", "two gates", "three gates"}
      [] field = "budgetAlignment" -> {"yes that works", "too expensive need to discuss"}
      [] field = "fullName" -> {"John Smith", "Guest User"}
      [] field = "contactPhone" -> {"07700900000", "0000000000"}
      [] field = "contactEmail" -> {"user@example.com", "guest@example.com"}
      [] field = "userBudget" -> {"£5000", "£10000", "£20000", "£0"}
      [] OTHER -> {}

\* The button values given as replies to a question in the modelled conversations.
TappedReplies(field) ==
    CASE field = "service" -> {"patio", "lawn mowing"}
      [] field = "overgrown" -> {"last week"}
      [] field = "dimensions" -> {"15 square meters"}
      [] field = "materialTier" -> {"indian sandstone"}
      [] field = "excavatorAccess" -> {"narrow gate"}
      [] field = "driveway" -> {"on street"}
      [] field = "slope" -> {"flat ground"}
      [] field = "fullName" -> {"John Smith"}
      [] field = "contactPhone" -> {"07700900000"}
      [] field = "contactEmail" -> {"user@example.com"}
      [] field = "userBudget" -> {"£5000"}
      [] OTHER -> {}

\* The replies a user types whatever the question is.
TypedReplies == {"yes", "no", "SL4 1AA", "N1"}

\* The replies handleSend is given while a field is asked for: a button of that
\* field, or typed text.
Replies(field) ==
    {u \in Utterances : u.text \in TappedReplies(field) \cup TypedReplies}

HandleSend ==
    \E u \in Replies(detectCurrentField(state)) :
        \E r \in RemoteFor(state, u) : HandleSendWith(u, r) /\ UNCHANGED chat

\* The ProjectInputs generateEstimate builds from the state captured by the timer.
EstimateInputs(c) ==
    [service |-> IF TruthyS(c.service) THEN c.service ELSE "hardscaping",
     hasExcavatorAccess |-> IF c.hasExcavatorAccess \in {Null, Undef} THEN "true" ELSE c.hasExcavatorAccess,
     hasDrivewayForSkip |-> IF c.hasDrivewayForSkip \in {Null, Undef} THEN "true" ELSE c.hasDrivewayForSkip,
     slopeLevel |-> IF TruthyS(c.slopeLevel) THEN c.slopeLevel ELSE "flat",
     subBaseType |-> IF TruthyS(c.subBaseType) THEN c.subBaseType ELSE "dirt",
     existingDemolition |-> IF c.existingDemolition \in {Null, Undef} THEN "false" ELSE c.existingDemolition,
     length_m |-> IF TruthyN(c.length_m) THEN c.length_m ELSE 0,
     width_m |-> IF TruthyN(c.width_m) THEN c.width_m ELSE 0,
     area_m2 |-> IF TruthyN(c.area_m2) THEN c.area_m2
                 ELSE Product(IF TruthyN(c.length_m) THEN c.length_m ELSE 0,
                              IF TruthyN(c.width_m) THEN c.width_m ELSE 0),
     materialTier |-> IF TruthyS(c.materialTier) THEN c.materialTier ELSE "standard",
     deckHeight_m |-> IF TruthyN(c.deckHeight_m) THEN c.deckHeight_m ELSE UndefN]

\* estimatorSchema.parse(inputs) succeeds.
estimatorSchema(i) ==
    /\ i.service # ""
    /\ i.area_m2 >= 0 /\ i.length_m >= 0 /\ i.width_m >= 0
    /\ i.materialTier \in {"standard", "premium", "luxury"}
    /\ i.hasExcavatorAccess \in {"true", "false"}
    /\ i.hasDrivewayForSkip \in {"true", "false"}
    /\ i.slopeLevel \in {"flat", "moderate", "steep"}
    /\ i.existingDemolition \in {"true", "false"}
    /\ (i.deckHeight_m = UndefN \/ i.deckHeight_m >= 0)

\* The setTimeout callback scheduled by handleSend.
GenerateEstimate ==
    /\ pendingEstimates # <<>>
    /\ pendingEstimates' = Tail(pendingEstimates)
    /\ IF estimatorSchema(EstimateInputs(Head(pendingEstimates)))
         THEN estimateShown' = "estimate" /\ state' = state
         ELSE estimateShown' = "error" /\ state' = [state EXCEPT !.awaitingEstimate = FALSE]
    /\ UNCHANGED <<quickReplies, last, probe, intake, chat>>

\* null in a context key: no record stored.
NoRecord == [object |-> FALSE]

\* The machine as created: in its initial state with its initial context.
createMachine ==
    [value |-> "phase1_logistics",
     context |-> [logistics |-> NoRecord, groundConditions |-> NoRecord,
                  dimensions |-> NoRecord, materialTier |-> NoRecord, errors |-> <<>>,
                  currentPhase |-> 1],
     event |-> [type |-> "xstate.init"]]

\* The input box, the processing flag and the message list once the greeting is
\* posted.  A message is its role and its content (for an agent message the kind of
\* reply); sending is the content of the user message being processed, event the
\* last thing that happened to the widget.
NoChat ==
    [input |-> "", isProcessing |-> FALSE,
     messageHistory |-> <<[role |-> "agent", content |-> "greeting"]>>,
     sending |-> "", event |-> [type |-> "mount", value |-> ""]]

NoProbe == [fn |-> "none", question |-> "none", score |-> 0, ready |-> FALSE]
NoTurn == [asked |-> "none", input |-> "", remote |-> "none", branch |-> "none", reply |-> "greeting"]

Init ==
    /\ state = createInitialState
    /\ quickReplies = "none"
    /\ pendingEstimates = <<>>
    /\ estimateShown = "none"
    /\ last = NoTurn
    /\ probe = NoProbe
    /\ intake = createMachine
    /\ chat = NoChat

Next == HandleSend \/ GenerateEstimate

Spec == Init /\ [][Next]_vars

\* ------------------------------------------------- the functions on their own

\* At most this many facts missing from, or present in, a state the functions are
\* applied to.
MaxAbsent == 3
MaxPresent == 2

FactFields ==
    {"area_m2", "length_m", "width_m", "materialTier", "hasExcavatorAccess",
     "hasDrivewayForSkip", "slopeLevel", "existingDemolition", "deckHeight_m", "overgrown",
     "gateCount", "fullName", "contactPhone", "contactEmail", "userBudget", "postalCode"}

\* Sets of missing facts; length and width together always come with their area
\* (updateStateWithExtraction derives it).
AbsentSets ==
    {A \in SUBSET FactFields :
        /\ Cardinality(A) <= MaxAbsent \/ Cardinality(FactFields \ A) <= MaxPresent
        /\ ~("area_m2" \in A /\ "length_m" \notin A /\ "width_m" \notin A)}

\* The ConversationState with the given service and all facts but the absent ones,
\* its certaintyLevel as updateStateWithExtraction leaves it.
StateWith(service, absent) ==
    LET facts == [createInitialState EXCEPT
            !.service = service,
            !.area_m2 = IF "area_m2" \in absent THEN NullN ELSE 150,
            !.length_m = IF "length_m" \in absent THEN NullN ELSE 50,
            !.width_m = IF "width_m" \in absent THEN NullN ELSE 30,
            !.materialTier = IF "materialTier" \in absent THEN Null ELSE "premium",
            !.hasExcavatorAccess = IF "hasExcavatorAccess" \in absent THEN Null ELSE "false",
            !.hasDrivewayForSkip = IF "hasDrivewayForSkip" \in absent THEN Null ELSE "true",
            !.slopeLevel = IF "slopeLevel" \in absent THEN Null ELSE "flat",
            !.existingDemolition = IF "existingDemolition" \in absent THEN Null ELSE "false",
            !.deckHeight_m = IF "deckHeight_m" \in absent THEN NullN ELSE 8,
            !.overgrown = IF "overgrown" \in absent THEN Null ELSE "true",
            !.gateCount = IF "gateCount" \in absent THEN NullN ELSE 1,
            !.fullName = IF "fullName" \in absent THEN Null ELSE "John Smith",
            !.contactPhone = IF "contactPhone" \in absent THEN Null ELSE "07700900000",
            !.contactEmail = IF "contactEmail" \in absent THEN Null ELSE "user@example.com",
            !.userBudget = IF "userBudget" \in absent THEN NullN ELSE 50000,
            !.postalCode = IF "postalCode" \in absent THEN Null ELSE "SL4 1AA"]
    IN  [facts EXCEPT !.certaintyLevel = calculateCertainty(facts)]

InitFn ==
    /\ state \in {StateWith(service, A) : service \in Services \cup {Null}, A \in AbsentSets}
    /\ quickReplies = "none"
    /\ pendingEstimates = <<>>
    /\ estimateShown = "none"
    /\ last = NoTurn
    /\ probe = NoProbe
    /\ intake = createMachine
    /\ chat = NoChat

AskNextQuestion ==
    /\ probe' = [NoProbe EXCEPT !.fn = "getNextQuestion", !.question = getNextQuestion(state)]
    /\ UNCHANGED <<state, quickReplies, pendingEstimates, estimateShown, last, intake, chat>>

ScoreCertainty ==
    /\ probe' = [NoProbe EXCEPT !.fn = "calculateCertainty", !.score = calculateCertainty(state)]
    /\ UNCHANGED <<state, quickReplies, pendingEstimates, estimateShown, last, intake, chat>>

CheckReady ==
    /\ probe' = [NoProbe EXCEPT !.fn = "isReadyForEstimate", !.ready = isReadyForEstimate(state)]
    /\ UNCHANGED <<state, quickReplies, pendingEstimates, estimateShown, last, intake, chat>>

NextFn == AskNextQuestion \/ ScoreCertainty \/ CheckReady

SpecFn == InitFn /\ [][NextFn]_vars

\* ------------------------------------------------------- one turn on its own

\* The fact a question is about.
FactOf(field) ==
    CASE field = "dimensions" -> "area_m2"
      [] field = "excavatorAccess" -> "hasExcavatorAccess"
      [] field = "driveway" -> "hasDrivewayForSkip"
      [] field = "slope" -> "slopeLevel"
      [] field = "demolition" -> "existingDemolition"
      [] field = "deckHeight" -> "deckHeight_m"
      [] OTHER -> field

\* The state with the question it asks answered.
Answer(s, service) ==
    LET field == detectCurrentField(s)
    IN  IF field = "unknown" THEN s
        ELSE WithCertainty([s EXCEPT ![FactOf(field)] = StateWith(service, {})[FactOf(field)]])

\* The state of a conversation about a service after n questions were answered in
\* the order they are asked.
RECURSIVE Answered(_, _)
Answered(service, n) ==
    IF n = 0 THEN createInitialState ELSE Answer(Answered(service, n - 1), service)

\* The same state with the area given as 2, or as a length of 5 and a width of 3.
Measured(s) ==
    IF s.area_m2 = NullN THEN {s}
    ELSE {s, [s EXCEPT !.area_m2 = 20], [s EXCEPT !.length_m = 50, !.width_m = 30]}

\* The same state after a reply to its question was not understood.
Retried(s) ==
    IF detectCurrentField(s) = "unknown" THEN {s}
    ELSE {s, incrementRetryCount(s, detectCurrentField(s))}

TurnStates ==
    UNION {UNION {Retried(m) : m \in Measured(Answered(service, n))} :
              service \in Services, n \in 0..Cardinality(QuestionFields)}

InitTurn ==
    /\ state \in TurnStates
    /\ quickReplies = "none"
    /\ pendingEstimates = <<>>
    /\ estimateShown = "none"
    /\ last = NoTurn
    /\ probe = NoProbe
    /\ intake = createMachine
    /\ chat = NoChat

\* handleSend once, whatever the reply and whatever the remote call comes to.
HandleSendOnce ==
    /\ last = NoTurn
    /\ \E u \in Utterances :
          \E r \in (IF useLocalOnly(state, u) THEN {"skipped"} ELSE WiderOutcomes) :
              HandleSendWith(u, r) /\ UNCHANGED chat

NextTurn == HandleSendOnce

SpecTurn == InitTurn /\ [][NextTurn]_vars

\* ------------------------------------------------------- the intake machine

\* A value of another type where a number is expected.
NotANumber == 0 - 3

\* The issues safeParse reports for the data of a submission, as the list of their
\* messages (empty: success).  An absent key is Undef or UndefN; data that is no
\* object at all has object = FALSE.
LogisticsSchema(d) ==
    LET bool(v, required, invalid) ==
            IF v = Undef THEN <<required>>
            ELSE IF v \notin {"true", "false"} THEN <<invalid>> ELSE <<>>
    IN  IF ~d.object THEN <<"Required">>
        ELSE bool(d.hasExcavatorAccess, "Excavator access status required",
                  "Excavator access must be yes/no")
             \o bool(d.hasDrivewayForSkip, "Driveway availability required",
                     "Driveway availability must be yes/no")

GroundConditionsSchema(d) ==
    LET enum(v, options, required) ==
            IF v = Undef THEN <<required>>
            ELSE IF v \notin options THEN <<"Invalid enum value">> ELSE <<>>
    IN  IF ~d.object THEN <<"Required">>
        ELSE enum(d.slopeLevel, {"flat", "moderate", "steep"}, "Slope level required")
             \o enum(d.subBaseType, {"dirt", "hardscape"}, "Sub-base type required")
             \o (IF d.existingDemolition = Undef THEN <<"Demolition status required">>
                 ELSE IF d.existingDemolition \notin {"true", "false"}
                   THEN <<"Demolition status must be yes/no">> ELSE <<>>)

\* A dimensions schema that asks for an object only.
DimensionsOptional(d) == IF d.object THEN <<>> ELSE <<"Required">>

\* The refinement runs unless a key was absent or of the wrong type.
DimensionsSchema(d) ==
    LET number(v, required, invalid, positive) ==
            IF v = UndefN THEN <<required>>
            ELSE IF v = NotANumber THEN <<invalid>>
            ELSE IF v <= 0 THEN <<positive>> ELSE <<>>
        height == IF d.deckHeight_m = UndefN THEN <<>>
                  ELSE number(d.deckHeight_m, "", "Expected number", "Number must be greater than 0")
        aborted == \E v \in {d.length_m, d.width_m} : v \in {UndefN, NotANumber}
                   \/ d.deckHeight_m = NotANumber
    IN  IF ~d.object THEN <<"Required">>
        ELSE number(d.length_m, "Length required", "Length must be a number",
                    "Length must be greater than 0")
             \o number(d.width_m, "Width required", "Width must be a number",
                       "Width must be greater than 0")
             \o height
             \o (IF ~aborted /\ ~(d.length_m > 0 /\ d.width_m > 0)
                   THEN <<"Cannot accept single-number area input. Provide length x width in meters.">>
                   ELSE <<>>)

MaterialTierSchema(d) ==
    LET enum(v, options, required) ==
            IF v = Undef THEN <<required>>
            ELSE IF v \notin options THEN <<"Invalid enum value">> ELSE <<>>
    IN  IF ~d.object THEN <<"Required">>
        ELSE enum(d.service, {"hardscaping", "decking", "softscaping"}, "Service type required")
             \o enum(d.materialTier, {"standard", "premium", "luxury"}, "Material tier required")

\* The issues of the schema of the event's own phase.
SchemaIssues(ev) ==
    CASE ev.type = "SUBMIT_LOGISTICS" -> LogisticsSchema(ev.data)
      [] ev.type = "SUBMIT_GROUND" -> GroundConditionsSchema(ev.data)
      [] ev.type = "SUBMIT_DIMENSIONS" -> DimensionsSchema(ev.data)
      [] ev.type = "SUBMIT_MATERIAL" -> MaterialTierSchema(ev.data)

\* Schema.parse(event.data): the data without the keys the schema does not know.
SchemaParse(ev) ==
    IF ev.type = "SUBMIT_DIMENSIONS"
      THEN [object |-> TRUE, length_m |-> ev.data.length_m, width_m |-> ev.data.width_m,
            deckHeight_m |-> ev.data.deckHeight_m]
      ELSE ev.data

\* The submissions sent to the machine.
Submissions ==
    LET undefined == [object |-> FALSE]
        logistics(a, d) == [object |-> TRUE, hasExcavatorAccess |-> a, hasDrivewayForSkip |-> d]
        ground(s, b, d) ==
            [object |-> TRUE, slopeLevel |-> s, subBaseType |-> b, existingDemolition |-> d]
        dimensions(l, w, h, a) ==
            [object |-> TRUE, length_m |-> l, width_m |-> w, deckHeight_m |-> h, area_m2 |-> a]
        material(s, t) == [object |-> TRUE, service |-> s, materialTier |-> t]
    IN  {[type |-> "SUBMIT_LOGISTICS", data |-> d] :
            d \in {logistics("true", "true"), logistics("false", "true"),
                   logistics(Undef, "true"), logistics("true", "yes"), undefined}}
        \cup {[type |-> "SUBMIT_GROUND", data |-> d] :
            d \in {ground("flat", "dirt", "true"), ground("steep", "hardscape", "false"),
                   ground("hilly", "dirt", "true"), ground("flat", Undef, "false")}}
        \cup {[type |-> "SUBMIT_DIMENSIONS", data |-> d] :
            d \in {dimensions(50, 30, UndefN, UndefN), dimensions(50, 30, 8, 150),
                   dimensions(UndefN, UndefN, UndefN, 150), dimensions(50, UndefN, UndefN, 150),
                   dimensions(0, 30, UndefN, UndefN), dimensions(50, NotANumber, UndefN, UndefN),
                   dimensions(50, 30, 0, UndefN)}}
        \cup {[type |-> "SUBMIT_MATERIAL", data |-> d] :
            d \in {material("hardscaping", "premium"), material("decking", "luxury"),
                   material("mowing", "premium"), material("softscaping", Undef)}}

\* What buildProjectInputs(context) returns: nothing when it throws.
buildProjectInputs(context) ==
    IF \/ ~context.logistics.object \/ ~context.groundConditions.object
       \/ ~context.dimensions.object \/ ~context.materialTier.object
      THEN {}
      ELSE {[service |-> context.materialTier.service,
            hasExcavatorAccess |-> context.logistics.hasExcavatorAccess,
            hasDrivewayForSkip |-> context.logistics.hasDrivewayForSkip,
            slopeLevel |-> context.groundConditions.slopeLevel,
            subBaseType |-> context.groundConditions.subBaseType,
            existingDemolition |-> context.groundConditions.existingDemolition,
            length_m |-> context.dimensions.length_m,
            width_m |-> context.dimensions.width_m,
            area_m2 |-> Product(context.dimensions.length_m, context.dimensions.width_m),
            materialTier |-> context.materialTier.materialTier,
            deckHeight_m |-> context.dimensions.deckHeight_m]}

\* The phases in order, each with the event it accepts and the context key it fills.
Phases ==
    << [value |-> "phase1_logistics", submit |-> "SUBMIT_LOGISTICS", key |-> "logistics"],
       [value |-> "phase2_ground", submit |-> "SUBMIT_GROUND", key |-> "groundConditions"],
       [value |-> "phase3_dimensions", submit |-> "SUBMIT_DIMENSIONS", key |-> "dimensions"],
       [value |-> "phase4_material", submit |-> "SUBMIT_MATERIAL", key |-> "materialTier"] >>

\* The state values the phases lead to.
PhaseAfter == <<"phase2_ground", "phase3_dimensions", "phase4_material", "complete">>

\* The guard without the schema.
isSubmitted(ev, submit) == ev.type = submit

\* The guards isValidLogistics, isValidGround, isValidDimensions, isValidMaterial.
isValid(ev, submit) == ev.type = submit /\ SchemaIssues(ev) = <<>>

\* The save action leaving currentPhase as it was.
PhaseKept(n) == n

\* currentPhase: 2, 3, 4, 5 in saveLogistics, saveGround, saveDimensions, saveMaterial.
SavedPhase(n) == n + 1

\* BACK, the record of the phase gone back to cleared.
BackClearing(ctx, phase) ==
    [ctx EXCEPT !.currentPhase = phase, !.errors = <<>>, ![Phases[phase].key] = NoRecord]

\* assign({ currentPhase: n, errors: [] })
BackTo(ctx, phase) == [ctx EXCEPT !.currentPhase = phase, !.errors = <<>>]

\* The snapshots the machine can be in after the event.  A transition is taken from
\* the active phase: the guarded one of its own submission when the data passes the
\* schema (save action), the unguarded one otherwise (setError); BACK from every
\* phase but the first; RESET from the root.  Complete is a final state: an actor
\* that has reached it is stopped and drops every event, while the machine's own
\* transition function still takes the root's RESET.
landscapeQSMachine(snap, ev) ==
    LET n == CHOOSE k \in 1..4 : Phases[k].value = snap.value
        ctx == snap.context
        reset == [snap EXCEPT !.value = "phase1_logistics", !.context = createMachine.context]
    IN  IF ev.type = "RESET"
          THEN IF snap.value = "complete" THEN {snap, reset} ELSE {reset}
        ELSE IF snap.value = "complete" THEN {snap}
        ELSE IF ev.type = "BACK"
          THEN IF n = 1 THEN {snap}
               ELSE {[snap EXCEPT !.value = Phases[n - 1].value, !.context = BackTo(ctx, n - 1)]}
        ELSE IF ev.type # Phases[n].submit THEN {snap}
        ELSE IF isValid(ev, Phases[n].submit)
          THEN {[snap EXCEPT !.value = PhaseAfter[n],
                             !.context = [ctx EXCEPT ![Phases[n].key] = SchemaParse(ev),
                                                     !.currentPhase = SavedPhase(n),
                                                     !.errors = <<>>]]}
        ELSE {[snap EXCEPT !.context = [ctx EXCEPT !.errors = SchemaIssues(ev)]]}

\* The snapshots after the event was sent, the event noted.
Sent(ev) == {[next EXCEPT !.event = ev] : next \in landscapeQSMachine(intake, ev)}

Submit ==
    /\ \E ev \in Submissions : intake' \in Sent(ev)
    /\ UNCHANGED <<state, quickReplies, pendingEstimates, estimateShown, last, probe, chat>>

Back ==
    /\ intake' \in Sent([type |-> "BACK"])
    /\ UNCHANGED <<state, quickReplies, pendingEstimates, estimateShown, last, probe, chat>>

Reset ==
    /\ intake' \in Sent([type |-> "RESET"])
    /\ UNCHANGED <<state, quickReplies, pendingEstimates, estimateShown, last, probe, chat>>

NextQS == Submit \/ Back \/ Reset

SpecQS == Init /\ [][NextQS]_vars

\* ================================================================= pricing
\* Money is in pounds, lengths and areas in tenths, hours per unit in hundredths,
\* factors in hundredths. The arithmetic is exact.

\* The rate of each service's tier, per square metre.
UK_2026_RATES ==
    [hardscaping |-> [standard |-> 95, premium |-> 125, luxury |-> 155],
     decking |-> [standard |-> 105, premium |-> 180, luxury |-> 240],
     softscaping |-> [standard |-> 45, premium |-> 75, luxury |-> 110],
     mowing |-> [standard |-> 45, premium |-> 65, luxury |-> 95],
     planting |-> [standard |-> 45, premium |-> 95, luxury |-> 150],
     fencing |-> [standard |-> 75, premium |-> 125, luxury |-> 185],
     framing |-> [standard |-> 350, premium |-> 550, luxury |-> 850]]

LABOR_RATE_PER_HOUR_GBP == 85

SURCHARGES ==
    [councilPermit |-> 60, steepSlopeGrading |-> 8000, highAltitudeScaffolding |-> 1800,
     skipLoad |-> 350]

\* A wrapper without the profit of 15%.
FeesAtCost == [projectManagement |-> 10, contingency |-> 5, netProfit |-> 0]

BUSINESS_FEES == [projectManagement |-> 10, contingency |-> 5, netProfit |-> 15]

\* The hours for the area: with the area in tenths, thousandths of an hour.
estimateLaborHours(area_m2, service) ==
    LET baseRates == [hardscaping |-> 50, decking |-> 60, softscaping |-> 30, mowing |-> 8,
                      planting |-> 40, fencing |-> 25, framing |-> 80]
    IN  area_m2 * baseRates[service]

\* The skips at two tons a skip.
SkipLoadsOfTwoTons(area_m2) == (area_m2 * 15 * 6 + 19999) \div 20000

\* Math.ceil(area_m2 * 0.15 * 0.6 / 1), the area in tenths.
calculateSkipLoads(area_m2) == (area_m2 * 15 * 6 + 9999) \div 10000

\* The quotient cut off.
CutOff(n, d) == n \div d

\* Math.round(n / d) for n >= 0 and d > 0: halves go up.
roundGBP(n, d) == (2 * n + d) \div (2 * d)

\* VIP PRIORITY from 5000 on.
StatusFromThreshold(estimate) == IF estimate >= 5000 THEN "VIP PRIORITY" ELSE "Standard"

determineProjectStatus(estimate) == IF estimate > 5000 THEN "VIP PRIORITY" ELSE "Standard"

\* No penalty for hand labor.
SameLabor(hasExcavatorAccess) == 100

\* if (!inputs.hasExcavatorAccess) laborCost *= 1.45
accessMultiplier(hasExcavatorAccess) == IF hasExcavatorAccess = "false" THEN 145 ELSE 100

\* Scaffolding from a height of 1.5 on.
ScaffoldedFrom(deckHeight_m) == TruthyN(deckHeight_m) /\ deckHeight_m >= 15

\* inputs.deckHeight_m && inputs.deckHeight_m > 1.5
scaffolded(deckHeight_m) == TruthyN(deckHeight_m) /\ deckHeight_m > 15

RECURSIVE SumAmounts(_)
\* lineItems.reduce((sum, item) => sum + item.amount, 0)
SumAmounts(lineItems) ==
    IF lineItems = <<>> THEN 0 ELSE Head(lineItems).amount + SumAmounts(Tail(lineItems))

calculateUKEstimate(inputs) ==
    LET item(kind, label, amount) == [kind |-> kind, label |-> label, amount |-> amount]
        materialRate == UK_2026_RATES[inputs.service][inputs.materialTier]
        laborHours == estimateLaborHours(inputs.area_m2, inputs.service)
        multiplier == accessMultiplier(inputs.hasExcavatorAccess)
        material == item("material", "material", roundGBP(inputs.area_m2 * materialRate, 10))
        labor ==
            item("labor",
                 IF inputs.hasExcavatorAccess = "false"
                   THEN "Labor (restricted access - 1.45x multiplier)"
                   ELSE "Labor (crew + equipment)",
                 roundGBP(laborHours * LABOR_RATE_PER_HOUR_GBP * multiplier, 100000))
        permit ==
            IF inputs.hasDrivewayForSkip = "false"
              THEN <<item("surcharge", "Council permit surcharge", SURCHARGES.councilPermit)>>
              ELSE <<>>
        grading ==
            IF inputs.slopeLevel = "steep"
              THEN <<item("surcharge", "Slope grading (>15)", SURCHARGES.steepSlopeGrading)>>
              ELSE <<>>
        demolition ==
            IF inputs.existingDemolition = "true"
              THEN <<item("surcharge", "Demolition waste",
                          calculateSkipLoads(inputs.area_m2) * SURCHARGES.skipLoad)>>
              ELSE <<>>
        scaffolding ==
            IF scaffolded(inputs.deckHeight_m)
              THEN <<item("surcharge", "High-altitude scaffolding",
                          SURCHARGES.highAltitudeScaffolding)>>
              ELSE <<>>
        costs == <<material, labor>> \o permit \o grading \o demolition \o scaffolding
    IN  CHOOSE result \in
            {[lowerBound |-> roundGBP(finalCost * 90, 100),
              estimate |-> roundGBP(finalCost, 1),
              upperBound |-> roundGBP(finalCost * 110, 100),
              lineItems |-> costs \o fees,
              projectStatus |-> determineProjectStatus(roundGBP(finalCost, 1))] :
             <<fees, finalCost>> \in
                {<<<<item("fee", "Project management (10%)", f[1]),
                     item("fee", "Contingency reserve (5%)", f[2]),
                     item("fee", "Net profit (15%)", f[3])>>,
                   subtotal + f[1] + f[2] + f[3]>> :
                 <<subtotal, f>> \in
                    {<<sub, <<roundGBP(sub * BUSINESS_FEES.projectManagement, 100),
                              roundGBP(sub * BUSINESS_FEES.contingency, 100),
                              roundGBP(sub * BUSINESS_FEES.netProfit, 100)>>>> :
                     sub \in {SumAmounts(costs)}}}} : TRUE

\* The inputs priced: each service and tier, areas of 1.5, 15, 15.5 and 20 with their
\* length and width, an area of 15 without them, and each site condition.
ProjectInputs ==
    {[service |-> service, hasExcavatorAccess |-> access, hasDrivewayForSkip |-> driveway,
      slopeLevel |-> slope, subBaseType |-> "dirt", existingDemolition |-> demolition,
      length_m |-> size[1], width_m |-> size[2], area_m2 |-> size[3],
      materialTier |-> tier, deckHeight_m |-> height] :
     service \in Services, access \in {"true", "false"}, driveway \in {"true", "false"},
     slope \in {"flat", "moderate", "steep"}, demolition \in {"true", "false"},
     size \in {<<3, 50, 15>>, <<50, 30, 150>>, <<31, 50, 155>>, <<40, 50, 200>>, <<0, 0, 150>>},
     tier \in {"standard", "premium", "luxury"}, height \in {UndefN, 14, 15, 16}}

\* The estimates classified, on both sides of the threshold.
Estimates == {0, 4999, 5000, 5001, 9000}

CalculateEstimate ==
    /\ probe = NoProbe
    /\ \E inputs \in ProjectInputs :
          probe' = [fn |-> "calculateUKEstimate", inputs |-> inputs,
                    result |-> calculateUKEstimate(inputs)]
    /\ UNCHANGED <<state, quickReplies, pendingEstimates, estimateShown, last, intake, chat>>

DetermineStatus ==
    /\ probe = NoProbe
    /\ \E estimate \in Estimates :
          probe' = [fn |-> "determineProjectStatus", estimate |-> estimate,
                    status |-> determineProjectStatus(estimate)]
    /\ UNCHANGED <<state, quickReplies, pendingEstimates, estimateShown, last, intake, chat>>

NextPrice == CalculateEstimate \/ DetermineStatus

SpecPrice == Init /\ [][NextPrice]_vars

\* ================================================================ the widget
\* The input box, the Send form and the quick reply buttons.  handleSend runs up to
\* its first await with the input of the render it was created in; the rest of it
\* runs later, while isProcessing holds the controls disabled.

\* At most this many messages in messageHistory.
MaxMessages == 7

\* DOMPurify.sanitize(input.trim()) over the texts of the box: blanks are trimmed
\* away, and markup that carries no text leaves nothing.
sanitizedInput(input) == IF input \in {" ", "<script></script>"} THEN "" ELSE input

\* handleSend up to setIsProcessing(true), run with the input of its closure; where it
\* returns early the box holds what the caller has set.
handleSendStarts(c, input, boxed) ==
    IF c.isProcessing \/ sanitizedInput(input) = ""
      THEN [c EXCEPT !.input = boxed]
      ELSE [c EXCEPT
              !.messageHistory = Append(@, [role |-> "user", content |-> sanitizedInput(input)]),
              !.input = "",
              !.isProcessing = TRUE,
              !.sending = sanitizedInput(input)]

\* The end of a turn with isProcessing left set.
EndedStillProcessing(c, content) ==
    [c EXCEPT !.messageHistory = Append(@, [role |-> "agent", content |-> content]),
              !.sending = ""]

\* The end of handleSend: the agent message appended to the messages there are, and
\* setIsProcessing(false) in the finally block.
handleSendEnds(c, content) ==
    [c EXCEPT !.messageHistory = Append(@, [role |-> "agent", content |-> content]),
              !.isProcessing = FALSE,
              !.sending = ""]

\* onChange of the input box, for the texts the user types.
TypeInput ==
    /\ ~chat.isProcessing
    /\ \E text \in {" ", "<script></script>", "N1", "patio", "15 square meters"} :
          chat' = [chat EXCEPT !.input = text, !.event = [type |-> "type", value |-> text]]
    /\ UNCHANGED <<state, quickReplies, pendingEstimates, estimateShown, last, probe, intake>>

\* onSubmit of the form: handleSend of the current render.
SubmitForm ==
    /\ ~chat.isProcessing
    /\ Len(chat.messageHistory) + 2 <= MaxMessages
    /\ chat' = [handleSendStarts(chat, chat.input, chat.input)
                   EXCEPT !.event = [type |-> "submit", value |-> chat.input]]
    /\ UNCHANGED <<state, quickReplies, pendingEstimates, estimateShown, last, probe, intake>>

\* handleQuickReply(value) for the value of a button on show: setInput(value), then
\* handleSend of the current render, whose input is the one the box held before.
handleQuickReply ==
    /\ ~chat.isProcessing
    /\ state.showQuickReplies /\ quickReplies # "none"
    /\ Len(chat.messageHistory) + 2 <= MaxMessages
    /\ \E value \in getFallbackQuickReplies(quickReplies, state) \cap {u.text : u \in Utterances} :
          chat' = [handleSendStarts(chat, chat.input, value)
                     EXCEPT !.event = [type |-> "quickReply", value |-> value]]
    /\ UNCHANGED <<state, quickReplies, pendingEstimates, estimateShown, last, probe, intake>>

\* The rest of handleSend when nothing throws.
TurnProcessed ==
    /\ chat.isProcessing
    /\ \E u \in {UtteranceOf(chat.sending)} :
          \E r \in (IF useLocalOnly(state, u) THEN {"skipped"} ELSE RemoteOutcomes) :
              /\ HandleSendWith(u, r)
              /\ chat' = [handleSendEnds(chat, last'.reply)
                             EXCEPT !.event = [type |-> "processed", value |-> chat.sending]]

\* The rest of handleSend when processing throws: the catch block.
TurnThrew ==
    /\ chat.isProcessing
    /\ chat' = [handleSendEnds(chat, "sorry")
                   EXCEPT !.event = [type |-> "threw", value |-> chat.sending]]
    /\ UNCHANGED <<state, quickReplies, pendingEstimates, estimateShown, last, probe, intake>>

NextChat == TypeInput \/ SubmitForm \/ handleQuickReply \/ TurnProcessed \/ TurnThrew

SpecChat == Init /\ [][NextChat]_vars

\* ================================================================== claims

\* ---------------------------------------------------------------------- C1

Ladder ==
    <<"service", "dimensions", "materialTier", "excavatorAccess", "deckHeight", "overgrown",
      "gateCount", "driveway", "slope", "demolition", "fullName", "contactPhone",
      "contactEmail", "userBudget", "postalCode">>

\* The stage has its fact.
StageFilled(stage, s) ==
    CASE stage = "service" -> s.service # Null
      [] stage = "dimensions" -> s.area_m2 # NullN \/ s.length_m # NullN \/ s.width_m # NullN
      [] stage = "materialTier" -> s.materialTier # Null
      [] stage = "excavatorAccess" -> s.hasExcavatorAccess # Null
      [] stage = "deckHeight" -> s.deckHeight_m # NullN
      [] stage = "overgrown" -> s.overgrown # Null
      [] stage = "gateCount" -> s.gateCount # NullN
      [] stage = "driveway" -> s.hasDrivewayForSkip # Null
      [] stage = "slope" -> s.slopeLevel # Null
      [] stage = "demolition" -> s.existingDemolition # Null
      [] stage = "fullName" -> s.fullName # Null
      [] stage = "contactPhone" -> s.contactPhone # Null
      [] stage = "contactEmail" -> s.contactEmail # Null
      [] stage = "userBudget" -> s.userBudget # NullN
      [] stage = "postalCode" -> s.postalCode # Null

\* The services a stage is for, as the ladder is stated: driveway and slope are
\* stages of every service.
StageServicesStated(stage) ==
    CASE stage = "excavatorAccess" -> {"hardscaping", "decking", "fencing", "framing"}
      [] stage = "deckHeight" -> {"decking"}
      [] stage = "overgrown" -> {"mowing"}
      [] stage = "gateCount" -> {"fencing"}
      [] stage = "demolition" -> {"hardscaping", "decking"}
      [] OTHER -> Services \cup {Null}

\* The same, with driveway and slope stages of the heavy-work services only.
StageServices(stage) ==
    IF stage \in {"driveway", "slope"}
      THEN {"hardscaping", "decking", "fencing", "framing", "softscaping"}
      ELSE StageServicesStated(stage)

\* The first stage of the ladder among the given positions, "none" when there is none.
FirstStage(positions) ==
    IF positions = {} THEN "none"
    ELSE Ladder[CHOOSE i \in positions : \A j \in positions : i <= j]

FirstUnsatisfiedStated(s) ==
    FirstStage({i \in DOMAIN Ladder :
        s.service \in StageServicesStated(Ladder[i]) /\ ~StageFilled(Ladder[i], s)})

FirstUnsatisfied(s) ==
    FirstStage({i \in DOMAIN Ladder :
        s.service \in StageServices(Ladder[i]) /\ ~StageFilled(Ladder[i], s)})

ReadyConditions(s) ==
    /\ s.userBudget # NullN
    /\ s.postalCode # Null
    /\ s.service \in {"hardscaping", "decking", "softscaping", "framing"} => s.slopeLevel # Null
    /\ s.service \in {"hardscaping", "decking", "fencing", "framing"} => s.hasExcavatorAccess # Null
    /\ s.service = "fencing" => s.gateCount # NullN
    /\ s.service = "decking" => s.deckHeight_m # NullN
    /\ calculateCertainty(s) >= 85

\* C4: isReadyForEstimate holds exactly when budget and postcode are present, slope is
\* known for hardscaping, decking, softscaping and framing, excavator access is known
\* for hardscaping, decking, fencing and framing, the gate count is known for fencing,
\* the deck height is known for decking, and the completeness score is at least 85.
ReadyExactlyWhenConditions ==
    probe.fn = "isReadyForEstimate" => (probe.ready <=> ReadyConditions(state))

\* A softscaping state scoring at least 85 that is not ready, its slope unknown.
ScoreAloneNotReady ==
    /\ probe.fn = "isReadyForEstimate"
    /\ ~probe.ready
    /\ calculateCertainty(state) >= 85
    /\ state.service = "softscaping"
    /\ state.slopeLevel = Null
    /\ state.userBudget # NullN
    /\ state.postalCode # Null

\* --------------------------------------------------------------------- C10

Points(present, weight) == IF present THEN weight ELSE 0

\* The sum of the weights of the fields present.
WeightedSum(s) ==
      Points(s.service # Null, 25)
    + Points(s.area_m2 # NullN \/ (s.length_m # NullN /\ s.width_m # NullN), 30)
    + Points(s.materialTier # Null, 20)
    + (CASE s.service = "mowing" -> Points(s.overgrown # Null, 25)
         [] s.service \in {"planting", "softscaping"} ->
                Points(s.slopeLevel # Null, 5) + Points(s.hasDrivewayForSkip # Null, 5)
         [] OTHER ->
                Points(s.hasExcavatorAccess # Null, 10) + Points(s.hasDrivewayForSkip # Null, 5)
              + Points(s.slopeLevel # Null, 5) + Points(s.existingDemolition # Null, 5))

\* The sum of all the weights of a service.
WeightTotal(s) == IF s.service \in {"planting", "softscaping"} THEN 85 ELSE 100

\* C10 as stated: calculateCertainty is the weighted sum of the fields present, out
\* of 100, and lies in 0..100.
CertaintyIsWeightedSum ==
    probe.fn = "calculateCertainty" =>
        probe.score = WeightedSum(state) /\ probe.score \in 0..100

\* C10, amended: calculateCertainty is the weighted sum of the fields present as a
\* percentage of the sum of the service's weights (85 for planting and softscaping,
\* 100 otherwise), rounded to the nearest integer, and lies in 0..100.
CertaintyIsWeightedShare ==
    probe.fn = "calculateCertainty" =>
        /\ 2 * WeightTotal(state) * probe.score <= 200 * WeightedSum(state) + WeightTotal(state)
        /\ 2 * WeightTotal(state) * probe.score > 200 * WeightedSum(state) - WeightTotal(state)
        /\ probe.score \in 0..100

\* A softscaping state with service and geometry only: 55 points of 85, scored 65.
CertaintyOfSoftscaping ==
    /\ probe.fn = "calculateCertainty"
    /\ state.service = "softscaping"
    /\ WeightedSum(state) = 55
    /\ probe.score = 65

\* ------------------------------------------------------ turns, as steps

FactNames ==
    {"service", "area_m2", "length_m", "width_m", "materialTier", "hasExcavatorAccess",
     "hasDrivewayForSkip", "slopeLevel", "existingDemolition", "deckHeight_m", "overgrown",
     "gateCount", "fullName", "contactPhone", "contactEmail", "userBudget", "postalCode"}

Facts(s) == [f \in FactNames |-> s[f]]

FactCollected(s, f) == IF f \in NumericKeys THEN s[f] # NullN ELSE s[f] # Null

\* The step is a turn of handleSend (the timer's step takes a pending estimate away).
IsTurn == Len(pendingEstimates') >= Len(pendingEstimates)

\* The reply of the turn the step is, and what its merge yields.
TurnInput == UtteranceOf(last'.input)

\* What the turn's merge yields (a singleton).
Merged ==
    {updateStateWithExtraction(state, extracted) :
        extracted \in {TurnExtracted(TurnInput, last'.remote)}}

\* What the merge of the local extraction alone yields (a singleton).
MergedLocally ==
    {updateStateWithExtraction(state, extracted) : extracted \in {localExtraction[last'.input]}}

\* The asked field is absent before the turn and present in the merged state; the
\* field of the dimensions question is the area or the length.
AskedFieldSet(merged) ==
    IF last'.asked = "dimensions"
      THEN \/ state.area_m2 = NullN /\ merged.area_m2 # NullN
           \/ state.length_m = NullN /\ merged.length_m # NullN
      ELSE ~StageFilled(last'.asked, state) /\ StageFilled(last'.asked, merged)

\* handleSend takes the reply itself as the postcode.
PostcodeForced(merged) ==
    /\ last'.asked = "postalCode"
    /\ merged.postalCode = Null
    /\ TurnInput.chars > 1

\* The turn counted as understood: the fallbacks are hidden.
Understood == ~state'.showQuickReplies

\* ---------------------------------------------------------------------- C2

\* C2 as stated: a fact that is non-null in a state is non-null in every later state;
\* no turn, with or without the remote fallback's result, resets a collected field.
CollectedFactsStay ==
    [][\A f \in FactNames : FactCollected(state, f) => FactCollected(state', f)]_vars

\* Excavator access, known before the turn, is null after a turn that merged a remote
\* answer in the documented format.
AccessResetByRemote ==
    /\ last.remote = "nulls"
    /\ last.asked = "slope"
    /\ state.hasExcavatorAccess = Null
    /\ state.materialTier # Null

\* ---------------------------------------------------------------------- C3

\* C3: isReadyForEstimate is false while the budget or the postcode is absent,
\* whatever the score, and no estimate is awaited, scheduled or handed over for a
\* state without both.
NoEstimateWithoutBudgetAndPostcode ==
    /\ (state.userBudget = NullN \/ state.postalCode = Null) => ~isReadyForEstimate(state)
    /\ (state.awaitingEstimate \/ last.reply = "handover") =>
          state.userBudget # NullN /\ state.postalCode # Null
    /\ \A i \in DOMAIN pendingEstimates :
          pendingEstimates[i].userBudget # NullN /\ pendingEstimates[i].postalCode # Null

\* A state scoring 100 with its postcode known and every site question answered, not
\* ready because the budget is absent.
FullScoreWithoutBudget ==
    /\ state.certaintyLevel = 100
    /\ state.postalCode # Null
    /\ state.userBudget = NullN
    /\ state.contactEmail # Null
    /\ ~state.awaitingEstimate
    /\ last.reply = "question"

\* ---------------------------------------------------------------------- C5

UnderstoodWhenSet(merged) == Understood <=> AskedFieldSet(merged)
UnderstoodWhenSetOrForced(merged) ==
    Understood <=> (AskedFieldSet(merged) \/ PostcodeForced(merged))

\* C5 as stated: a turn counts as understood if and only if the asked field was absent
\* before the turn and is present in the merged state.
UnderstoodIffAskedFieldSet ==
    [][(IsTurn /\ last'.asked # "unknown") => \E merged \in Merged : UnderstoodWhenSet(merged)]_vars

\* C5, amended: a turn counts as understood if and only if the asked field was absent
\* before the turn and is present in the merged state, or the postcode was asked, the
\* merge did not set it and the reply is longer than one character (handleSend then
\* takes the reply as the postcode).
UnderstoodIffAskedFieldSetOrForced ==
    [][(IsTurn /\ last'.asked # "unknown") => \E merged \in Merged : UnderstoodWhenSetOrForced(merged)]_vars

\* A turn that set three other fields and not the one asked, counted as not understood.
OtherFieldsOnlyNotUnderstood ==
    /\ last.asked = "service"
    /\ last.input = "yes"
    /\ last.branch = "retry"
    /\ state.service = Null
    /\ state.hasExcavatorAccess = "true"
    /\ state.showQuickReplies

\* ---------------------------------------------------------------------- C6

RetryCounted ==
    /\ state'.retryCount = [state.retryCount EXCEPT ![last'.asked] = @ + 1]
    /\ state'.lastQuestionField = last'.asked
    /\ state'.showQuickReplies
    /\ quickReplies' = last'.asked

RetryWhenUnset(merged) == ~AskedFieldSet(merged) => RetryCounted
RetryWhenUnsetUnlessForced(merged) ==
    (~AskedFieldSet(merged) /\ ~PostcodeForced(merged)) => RetryCounted

\* C6 as stated: when the asked field was not set by the turn's merge, that field's
\* retry counter increases by 1, the other counters are unchanged, lastQuestionField
\* becomes that field and the quick-reply fallback is shown.
UnsetFieldCountsRetry ==
    [][(IsTurn /\ last'.asked # "unknown") => \E merged \in Merged : RetryWhenUnset(merged)]_vars

\* C6, amended: the same, unless the postcode was asked and the reply is longer than
\* one character: the reply is then taken as the postcode and no retry is counted.
UnsetFieldCountsRetryUnlessForced ==
    [][(IsTurn /\ last'.asked # "unknown") => \E merged \in Merged : RetryWhenUnsetUnlessForced(merged)]_vars

\* The second retry in a row for the dimensions.
SecondRetry ==
    /\ last.branch = "retry"
    /\ last.asked = "dimensions"
    /\ state.retryCount["dimensions"] = 2
    /\ state.lastQuestionField = "dimensions"
    /\ quickReplies = "dimensions"

\* ---------------------------------------------------------------------- C7

ClearedWhenSet(merged) ==
    AskedFieldSet(merged) =>
        /\ state'.retryCount = NoRetries
        /\ ~state'.showQuickReplies
        /\ state'.lastQuestionField = Null
        /\ Facts(state') = Facts(merged)

\* C7: when the asked field was set by the turn's merge, every retry counter is
\* cleared, showQuickReplies is false, lastQuestionField is null, and the facts are
\* the ones the merge produced.
SetFieldClearsRetries ==
    [][(IsTurn /\ last'.asked # "unknown") => \E merged \in Merged : ClearedWhenSet(merged)]_vars

\* The tier answered after the service question had been retried: counters cleared.
UnderstoodAfterRetry ==
    /\ last.branch = "understood"
    /\ last.asked = "materialTier"
    /\ state.materialTier = "premium"
    /\ state.retryCount = NoRetries
    /\ state.lastQuestionField = Null
    /\ quickReplies = "none"

\* ---------------------------------------------------------------------- C8

SiteFlagOf(field) ==
    CASE field = "excavatorAccess" -> "hasExcavatorAccess"
      [] field = "driveway" -> "hasDrivewayForSkip"
      [] field = "demolition" -> "existingDemolition"

\* C8 as stated: a bare yes or no in answer to the excavator access, driveway or
\* demolition question changes only the field asked; the other two site flags keep
\* the values they had before the turn.
BareAnswerSetsAskedFlagOnly ==
    [][(IsTurn /\ last'.input \in {"yes", "no"}
             /\ last'.asked \in {"excavatorAccess", "driveway", "demolition"}) =>
          \A field \in {"excavatorAccess", "driveway", "demolition"} \ {last'.asked} :
              state'[SiteFlagOf(field)] = state[SiteFlagOf(field)]]_vars

\* After "yes" to the excavator access question the driveway and demolition flags are
\* set too, and the slope is asked next.
BareYesSetsThreeFlags ==
    /\ last.asked = "excavatorAccess"
    /\ last.input = "yes"
    /\ state.hasDrivewayForSkip = "true"
    /\ state.existingDemolition = "true"
    /\ getNextQuestion(state) = "slope"

\* ---------------------------------------------------------------------- C9

AgentReplies == {"question", "apology", "handover", "tellmore"}

LocalMergeOnly(mergedLocally) ==
    /\ Facts(state') = Facts(mergedLocally)
    /\ last'.reply \in AgentReplies

LocalTurnOnly(mergedLocally) ==
    /\ Facts(state') =
          Facts(IF PostcodeForced(mergedLocally)
                  THEN [mergedLocally EXCEPT !.postalCode = TurnInput.upper]
                  ELSE mergedLocally)
    /\ last'.reply \in AgentReplies

\* C9 as stated: when the remote call fails, the turn completes with the facts of the
\* merge of the pre-turn state with the local extraction only, and an agent reply.
FailedRemoteLeavesLocalMerge ==
    [][(IsTurn /\ last'.remote \in RemoteFailures) => \E merged \in MergedLocally : LocalMergeOnly(merged)]_vars

\* C9, amended: when the remote call fails, the turn completes with the facts of the
\* merge of the pre-turn state with the local extraction only, the reply itself taken
\* as the postcode when the postcode was asked, the merge did not set it and the reply
\* is longer than one character; an agent reply is produced.
FailedRemoteLeavesLocalTurn ==
    [][(IsTurn /\ last'.remote \in RemoteFailures) => \E merged \in MergedLocally : LocalTurnOnly(merged)]_vars

\* A turn whose remote call answered with an unparsable body, retried.
RemoteUnparsable ==
    /\ last.remote = "unparsable"
    /\ last.asked = "slope"
    /\ last.branch = "retry"
    /\ last.reply = "apology"
    /\ state.slopeLevel = Null

\* --------------------------------------------------------------------- C11

\* The turn's merge adds information: every fact collected before the turn has the
\* same value after it.
AddsInformation == \A f \in FactNames : FactCollected(state, f) => state'[f] = state[f]

\* C11: over a conversation, whenever a turn's merge adds information to the state
\* (no collected fact is lost or replaced), the score of the resulting state is
\* greater than or equal to the score of the state before, and is the score
\* calculateCertainty gives the resulting state.
ScoreNeverDropsWhenAdding ==
    [][(IsTurn /\ AddsInformation) =>
          /\ state'.certaintyLevel >= state.certaintyLevel
          /\ state'.certaintyLevel = calculateCertainty(state')]_vars

\* The service named after a bare "yes" had set the three site flags while the
\* service was unknown: the score went from 20 to 25.
ScoreRaisedByService ==
    /\ last.asked = "service"
    /\ last.input = "lawn mowing"
    /\ state.service = "mowing"
    /\ state.hasExcavatorAccess = "true"
    /\ state.certaintyLevel = 25

\* --------------------------------------------------------------------- C12

\* What the turn extracted, and what merging it once into the state before the turn
\* yields (a singleton).
MergedOnce ==
    {[extracted |-> extracted, once |-> updateStateWithExtraction(state, extracted)] :
        extracted \in {TurnExtracted(TurnInput, last'.remote)}}

\* The facts the merge accepts only for the field being asked or on their own mark.
GatedFacts == {"fullName", "userBudget", "postalCode"}

\* The merge stored the extracted value of the fact.
Accepted(e, once, f) ==
    /\ IF f \in NumericKeys THEN e[f] \notin {UndefN, NullN} ELSE TruthyS(e[f])
    /\ once[f] = e[f]

Idempotent(once, twice) ==
    /\ Facts(twice) = Facts(once)
    /\ twice.certaintyLevel = once.certaintyLevel

IdempotentWhereAccepted(e, once, twice) ==
    /\ \A f \in FactNames \ GatedFacts : twice[f] = once[f]
    /\ \A f \in GatedFacts : Accepted(e, once, f) => twice[f] = once[f]
    /\ MergeCurrentField(once) = MergeCurrentField(state) => Facts(twice) = Facts(once)
    /\ twice.certaintyLevel = once.certaintyLevel

\* C12 as stated: for every state and extraction of a turn, merging the extraction
\* into the merged state a second time leaves every fact and the score as the first
\* merge left them.
RemergeChangesNothing ==
    [][IsTurn => \E m \in MergedOnce :
          \E twice \in {updateStateWithExtraction(m.once, m.extracted)} :
              Idempotent(m.once, twice)]_vars

\* C12, amended: a second merge of the same extraction leaves the score and every
\* fact as the first merge left them, except that a name, a budget or a postcode the
\* first merge did not accept can be accepted by the second when the first merge
\* changed the field being asked; a fact the first merge accepted is never changed.
RemergeKeepsAcceptedFacts ==
    [][IsTurn => \E m \in MergedOnce :
          \E twice \in {updateStateWithExtraction(m.once, m.extracted)} :
              IdempotentWhereAccepted(m.extracted, m.once, twice)]_vars

\* "5m by 3m" answered the dimensions question: length, width and the derived area
\* are accepted, and merging the same extraction again changes no fact.
RemergedDimensions ==
    /\ last.asked = "dimensions"
    /\ last.input = "5m by 3m"
    /\ state.length_m = 50 /\ state.width_m = 30 /\ state.area_m2 = 150
    /\ Facts(updateStateWithExtraction(state, localExtraction[last.input])) = Facts(state)

\* --------------------------------------------------------------------- C13

\* C13: after the merge of any turn, if length and width are both present and no
\* area was present (none in the state, none accepted from the extraction), the area
\* is length x width (in tenths: ten times the area is the product); and in every
\* conversation state with length and width both present the area is present too.
AreaFollowsLengthAndWidth ==
    /\ [](TruthyN(state.length_m) /\ TruthyN(state.width_m) => TruthyN(state.area_m2))
    /\ [][IsTurn => \E m \in MergedOnce :
            (/\ TruthyN(m.once.length_m)
             /\ TruthyN(m.once.width_m)
             /\ ~TruthyN(AcceptedArea(state, m.extracted))) =>
                /\ 10 * m.once.area_m2 = m.once.length_m * m.once.width_m
                /\ state'.area_m2 = m.once.area_m2]_vars

\* A decking conversation whose dimensions question was answered "5m by 3m": the
\* area, absent before, is 15.
AreaDerivedForDecking ==
    /\ last.asked = "dimensions"
    /\ last.input = "5m by 3m"
    /\ state.service = "decking"
    /\ state.length_m = 50
    /\ state.width_m = 30
    /\ state.area_m2 = 150

\* --------------------------------------------------------------------- C14

\* C14: in the merge of any turn, an extracted area smaller than 2 does not replace
\* an existing area greater than 2 unless the field being asked is dimensions; in
\* every other case a non-zero extracted area becomes the area of the state.
SmallAreaNeverShrinksArea ==
    [][IsTurn => \E m \in MergedOnce :
          TruthyN(m.extracted.area_m2) =>
              IF /\ state.area_m2 > 20
                 /\ m.extracted.area_m2 < 20
                 /\ MergeCurrentField(state) # "dimensions"
                THEN m.once.area_m2 = state.area_m2 /\ state'.area_m2 = state.area_m2
                ELSE m.once.area_m2 = m.extracted.area_m2
                     /\ state'.area_m2 = m.extracted.area_m2]_vars

\* The remote answer gave an area of 1.5 while the material was asked: the area of
\* 15 is kept.
SmallAreaIgnored ==
    /\ last.remote = "tiny"
    /\ last.asked = "materialTier"
    /\ state.area_m2 = 150
    /\ state.length_m = NullN

\* --------------------------------------------------------------------- C15

\* C15: in any turn the fullName of the state changes only if the field being asked
\* (the one the merge goes by: lastQuestionField, else the first unanswered question)
\* is fullName or the reply contains a self-introduction phrase, and then it becomes
\* the extracted name; a name-like extraction made while another field is asked
\* leaves fullName as it was.
NameOnlyWhenAskedOrIntroduced ==
    [][IsTurn => \E m \in MergedOnce :
          /\ state'.fullName # state.fullName =>
                /\ MergeCurrentField(state) = "fullName" \/ "name:intro" \in TurnInput.kw
                /\ state'.fullName = m.extracted.fullName
          /\ (/\ TruthyS(m.extracted.fullName)
              /\ MergeCurrentField(state) # "fullName"
              /\ "name:intro" \notin TurnInput.kw) => state'.fullName = state.fullName]_vars

\* "John Smith" typed while the slope was asked: the name stays unknown.
NameIgnoredAtSlope ==
    /\ last.asked = "slope"
    /\ last.input = "John Smith"
    /\ localExtraction[last.input].fullName = "John Smith"
    /\ state.fullName = Null

\* --------------------------------------------------------------------- C16

\* C16: in any turn the userBudget of the state changes only if the field being
\* asked (as the merge goes by it) is userBudget or the extraction carries the
\* explicit-currency flag, and then it becomes the extracted budget; a number
\* extracted as a budget without the flag while another field is asked leaves
\* userBudget as it was.
BudgetOnlyWhenAskedOrExplicit ==
    [][IsTurn => \E m \in MergedOnce :
          /\ state'.userBudget # state.userBudget =>
                /\ MergeCurrentField(state) = "userBudget" \/ m.extracted.explicitBudget = "true"
                /\ state'.userBudget = m.extracted.userBudget
          /\ (/\ m.extracted.userBudget \notin {UndefN, NullN}
              /\ MergeCurrentField(state) # "userBudget"
              /\ m.extracted.explicitBudget # "true") => state'.userBudget = state.userBudget]_vars

\* "5000" typed while the email address was asked: read as a budget without the flag,
\* it is not taken.
BudgetIgnoredAtEmail ==
    /\ last.asked = "contactEmail"
    /\ last.input = "5000"
    /\ localExtraction[last.input].userBudget = 50000
    /\ localExtraction[last.input].explicitBudget = "false"
    /\ state.userBudget = NullN

\* --------------------------------------------------------------------- C17

PhaseNumber(value) ==
    CASE value = "phase2_ground" -> 2
      [] value = "phase3_dimensions" -> 3
      [] value = "phase4_material" -> 4
      [] value = "complete" -> 5
      [] OTHER -> 1

\* The stored phase records.
Records(snap) ==
    <<snap.context.logistics, snap.context.groundConditions, snap.context.dimensions,
      snap.context.materialTier>>

\* C18: a phase is left forwards only by a submission of the phase's own event whose
\* data passes the phase's schema, which stores the parsed data, clears the errors and
\* leads to the next phase; a submission of the phase's own event that fails the
\* schema leaves the phase and the stored records as they were and records a
\* non-empty list of messages.
PhaseAdvancesOnValidSubmission ==
    [][LET n == PhaseNumber(intake.value)
           ev == intake'.event
       IN  /\ PhaseNumber(intake'.value) > n =>
                /\ ev.type = Phases[n].submit
                /\ SchemaIssues(ev) = <<>>
                /\ PhaseNumber(intake'.value) = n + 1
           /\ (n <= 4 /\ ev.type = Phases[n].submit) =>
                IF SchemaIssues(ev) = <<>>
                  THEN /\ intake'.value = PhaseAfter[n]
                       /\ intake'.context[Phases[n].key] = SchemaParse(ev)
                       /\ \A k \in 1..4 : k # n => Records(intake')[k] = Records(intake)[k]
                       /\ intake'.context.errors = <<>>
                  ELSE /\ intake'.value = intake.value
                       /\ Records(intake') = Records(intake)
                       /\ intake'.context.errors = SchemaIssues(ev)
                       /\ intake'.context.errors # <<>>]_vars

\* The ground conditions phase after a submission with an unknown slope level: the
\* logistics stay stored, the ground conditions are not, an error is recorded.
GroundSubmissionRejected ==
    /\ intake.value = "phase2_ground"
    /\ intake.event.type = "SUBMIT_GROUND"
    /\ intake.event.data.slopeLevel = "hilly"
    /\ intake.context.logistics.object
    /\ ~intake.context.groundConditions.object
    /\ intake.context.errors = <<"Invalid enum value">>

\* --------------------------------------------------------------------- C19

\* C19: the dimensions phase is left forwards only by a submission whose data holds
\* a length and a width that are both numbers greater than 0; a submission that
\* carries an area but lacks the length or the width is rejected, and the machine
\* stays in the dimensions phase with nothing stored and an error recorded.
DimensionsNeedLengthAndWidth ==
    [][intake.value = "phase3_dimensions" =>
          LET ev == intake'.event
          IN  /\ intake'.value = "phase4_material" =>
                    /\ ev.type = "SUBMIT_DIMENSIONS"
                    /\ ev.data.object
                    /\ ev.data.length_m \notin {UndefN, NotANumber} /\ ev.data.length_m > 0
                    /\ ev.data.width_m \notin {UndefN, NotANumber} /\ ev.data.width_m > 0
                    /\ intake'.context.dimensions.length_m = ev.data.length_m
                    /\ intake'.context.dimensions.width_m = ev.data.width_m
              /\ (/\ ev.type = "SUBMIT_DIMENSIONS"
                  /\ ev.data.object
                  /\ ev.data.area_m2 # UndefN
                  /\ ev.data.length_m = UndefN \/ ev.data.width_m = UndefN) =>
                    /\ intake'.value = "phase3_dimensions"
                    /\ intake'.context.dimensions = intake.context.dimensions
                    /\ intake'.context.errors # <<>>]_vars

\* A submission of an area of 15 alone, rejected in the dimensions phase.
AreaAloneRejected ==
    /\ intake.value = "phase3_dimensions"
    /\ intake.event.type = "SUBMIT_DIMENSIONS"
    /\ intake.event.data.area_m2 = 150
    /\ intake.event.data.length_m = UndefN
    /\ intake.event.data.width_m = UndefN
    /\ ~intake.context.dimensions.object
    /\ intake.context.errors = <<"Length required", "Width required">>

\* --------------------------------------------------------------------- C20

\* C20: BACK sent in the second, third or fourth phase leads to the phase before
\* and leaves every stored phase record as it was; BACK sent in the first phase
\* changes neither the phase nor the context.
BackKeepsRecords ==
    [][intake'.event.type = "BACK" =>
          LET n == PhaseNumber(intake.value)
          IN  /\ n \in 2..4 =>
                    /\ intake'.value = Phases[n - 1].value
                    /\ Records(intake') = Records(intake)
              /\ n = 1 =>
                    /\ intake'.value = intake.value
                    /\ intake'.context = intake.context]_vars

\* Back in the dimensions phase from the material phase, the dimensions still stored.
BackFromMaterial ==
    /\ intake.event.type = "BACK"
    /\ intake.value = "phase3_dimensions"
    /\ intake.context.dimensions.object
    /\ intake.context.dimensions.length_m = 50
    /\ ~intake.context.materialTier.object

\* --------------------------------------------------------------------- C21

\* C21: RESET sent in any state of the machine, the complete state included, puts
\* the machine in phase one with the four phase records null, the errors empty and
\* currentPhase 1.
ResetClearsEverything ==
    [][intake'.event.type = "RESET" =>
          /\ intake'.value = "phase1_logistics"
          /\ \A k \in 1..4 : ~Records(intake')[k].object
          /\ intake'.context.errors = <<>>
          /\ intake'.context.currentPhase = 1]_vars

\* RESET sent to the machine in its final state, which still holds the four records.
ResetDroppedWhenComplete ==
    /\ intake.event.type = "RESET"
    /\ intake.value = "complete"
    /\ \A k \in 1..4 : Records(intake)[k].object
    /\ intake.context.currentPhase = 5

\* --------------------------------------------------------------------- C22

\* C22: every project input handed to calculateUKEstimate, built from the machine's
\* context by buildProjectInputs or from the conversation state by generateEstimate,
\* has a length above 0, a width above 0 and an area equal to length times width.
PricedInputsHaveLengthAndWidth ==
    /\ [](\A built \in buildProjectInputs(intake.context) :
             /\ built.length_m > 0 /\ built.width_m > 0
             /\ 10 * built.area_m2 = built.length_m * built.width_m)
    /\ [][(pendingEstimates # <<>> /\ pendingEstimates' = Tail(pendingEstimates)
              /\ estimateShown' = "estimate") =>
             \A inputs \in {EstimateInputs(Head(pendingEstimates))} :
                /\ inputs.length_m > 0 /\ inputs.width_m > 0
                /\ 10 * inputs.area_m2 = inputs.length_m * inputs.width_m]_vars

\* An estimate shown for a conversation that gave an area of 15 and neither a length
\* nor a width: the inputs pass estimatorSchema with length 0 and width 0.
EstimateFromAreaAlone ==
    /\ estimateShown = "estimate"
    /\ state.length_m = NullN /\ state.width_m = NullN
    /\ EstimateInputs(state).area_m2 = 150
    /\ EstimateInputs(state).length_m = 0
    /\ EstimateInputs(state).width_m = 0
    /\ estimatorSchema(EstimateInputs(state))

\* --------------------------------------------------------------------- C23

\* C23: the access penalty applies to labor only. The labor line item is
\* area x hours per unit x 85, rounded to the pound, with excavator access and that
\* product x 1.45, rounded, without it; the material line item is area x tier rate,
\* rounded, and is the same with and without access.
PenaltyOnLaborOnly ==
    probe.fn = "calculateUKEstimate" =>
        LET inputs == probe.inputs
            items == probe.result.lineItems
            hours == estimateLaborHours(inputs.area_m2, inputs.service)
            rate == UK_2026_RATES[inputs.service][inputs.materialTier]
            flipped == [inputs EXCEPT !.hasExcavatorAccess =
                                         IF @ = "false" THEN "true" ELSE "false"]
        IN  /\ items[2].kind = "labor"
            /\ items[2].amount =
                  IF inputs.hasExcavatorAccess = "false"
                    THEN (2 * hours * 85 * 145 + 100000) \div 200000
                    ELSE (2 * hours * 85 + 1000) \div 2000
            /\ items[1].kind = "material"
            /\ items[1].amount = (2 * inputs.area_m2 * rate + 10) \div 20
            /\ calculateUKEstimate(flipped).lineItems[1] = items[1]
            /\ \A k \in 3..Len(items) : items[k].kind \notin {"labor", "material"}

\* 15 square metres of standard hardscaping without excavator access: material
\* 15 x 95 = 1425, labor 7.5 hours x 85 x 1.45 = 924.375, charged as 924.
HandLaborCharged ==
    /\ probe.fn = "calculateUKEstimate"
    /\ probe.inputs.service = "hardscaping" /\ probe.inputs.materialTier = "standard"
    /\ probe.inputs.area_m2 = 150 /\ probe.inputs.hasExcavatorAccess = "false"
    /\ probe.result.lineItems[1].amount = 1425
    /\ probe.result.lineItems[2].amount = 924

\* --------------------------------------------------------------------- C24

\* C24: the point estimate is the subtotal of the material, labor and surcharge items
\* plus three fees of 10%, 5% and 15% of the subtotal, each rounded to the pound and
\* each a line item of its own after the material, labor and surcharge items; so the
\* point estimate is the sum of the amounts of all the line items.
EstimateIsSubtotalPlusFees ==
    probe.fn = "calculateUKEstimate" =>
        LET items == probe.result.lineItems
            n == Len(items)
        IN  /\ n >= 5
            /\ \A k \in 1..(n - 3) : items[k].kind \in {"material", "labor", "surcharge"}
            /\ \A subtotal \in {SumAmounts(SubSeq(items, 1, n - 3))} :
                  /\ items[n - 2] = [kind |-> "fee", label |-> "Project management (10%)",
                                     amount |-> (2 * subtotal * 10 + 100) \div 200]
                  /\ items[n - 1] = [kind |-> "fee", label |-> "Contingency reserve (5%)",
                                     amount |-> (2 * subtotal * 5 + 100) \div 200]
                  /\ items[n] = [kind |-> "fee", label |-> "Net profit (15%)",
                                 amount |-> (2 * subtotal * 15 + 100) \div 200]
                  /\ probe.result.estimate =
                        subtotal + items[n - 2].amount + items[n - 1].amount + items[n].amount
            /\ probe.result.estimate = SumAmounts(items)

\* A deck with every surcharge: a subtotal of 14496 and fees of 1450, 725 and 2174
\* make an estimate of 18845 in nine line items.
EstimateWithEverySurcharge ==
    /\ probe.fn = "calculateUKEstimate"
    /\ Len(probe.result.lineItems) = 9
    /\ SumAmounts(SubSeq(probe.result.lineItems, 1, 6)) = 14496
    /\ probe.result.lineItems[7].amount = 1450
    /\ probe.result.lineItems[8].amount = 725
    /\ probe.result.lineItems[9].amount = 2174
    /\ probe.result.estimate = 18845

\* --------------------------------------------------------------------- C25

\* C25: a demolition waste line item is present exactly when existingDemolition is
\* true, and its amount is ceil(area x 0.15 x 0.6) skips, at one ton a skip, of 350
\* each; an area of 15 is charged 2 skips.
DemolitionWasteBySkip ==
    probe.fn = "calculateUKEstimate" =>
        LET inputs == probe.inputs
            items == probe.result.lineItems
            waste == {k \in 1..Len(items) : items[k].label = "Demolition waste"}
        IN  /\ (waste # {}) <=> (inputs.existingDemolition = "true")
            /\ Cardinality(waste) <= 1
            /\ \A k \in waste :
                  /\ items[k].kind = "surcharge"
                  /\ items[k].amount = ((inputs.area_m2 * 9 + 999) \div 1000) * 350
                  /\ inputs.area_m2 = 150 => items[k].amount = 2 * 350

\* The demolition of 15 square metres: 1.35 tons, 2 skips, 700.
TwoSkipsCharged ==
    /\ probe.fn = "calculateUKEstimate"
    /\ probe.inputs.existingDemolition = "true"
    /\ probe.inputs.area_m2 = 150
    /\ probe.inputs.hasDrivewayForSkip = "true" /\ probe.inputs.slopeLevel = "flat"
    /\ probe.result.lineItems[3] =
          [kind |-> "surcharge", label |-> "Demolition waste", amount |-> 700]

\* --------------------------------------------------------------------- C26

\* C26: the scaffolding line item, a flat 1800, is present if and only if a deck
\* height is given and is above 1.5: 1.6 brings it, 1.4 and 1.5 do not; and the
\* other surcharges are the ones charged without a deck height.
ScaffoldingAboveOneAndAHalf ==
    probe.fn = "calculateUKEstimate" =>
        LET inputs == probe.inputs
            items == probe.result.lineItems
            scaffold == {k \in 1..Len(items) : items[k].label = "High-altitude scaffolding"}
            other(i) == i.kind = "surcharge" /\ i.label # "High-altitude scaffolding"
            unraised == [inputs EXCEPT !.deckHeight_m = UndefN]
        IN  /\ (scaffold # {}) <=> (inputs.deckHeight_m # UndefN /\ inputs.deckHeight_m > 15)
            /\ inputs.deckHeight_m = 16 => scaffold # {}
            /\ inputs.deckHeight_m \in {14, 15} => scaffold = {}
            /\ Cardinality(scaffold) <= 1
            /\ \A k \in scaffold : items[k].kind = "surcharge" /\ items[k].amount = 1800
            /\ SelectSeq(items, other) = SelectSeq(calculateUKEstimate(unraised).lineItems, other)

\* A deck 1.6 high on a steep site without a driveway: the permit, the grading and
\* the scaffolding are charged.
ScaffoldingCharged ==
    /\ probe.fn = "calculateUKEstimate"
    /\ probe.inputs.deckHeight_m = 16
    /\ probe.inputs.hasDrivewayForSkip = "false" /\ probe.inputs.slopeLevel = "steep"
    /\ probe.inputs.existingDemolition = "false"
    /\ probe.result.lineItems[3].amount = 60
    /\ probe.result.lineItems[4].amount = 8000
    /\ probe.result.lineItems[5] =
          [kind |-> "surcharge", label |-> "High-altitude scaffolding", amount |-> 1800]

\* --------------------------------------------------------------------- C27

\* C27: the priority tier follows from the point estimate alone: VIP PRIORITY for
\* every estimate above 5000, Standard for every estimate up to 5000; 5000 is
\* Standard and 5001 is VIP PRIORITY.
StatusByThreshold ==
    /\ probe.fn = "determineProjectStatus" =>
          /\ probe.status = "VIP PRIORITY" <=> probe.estimate > 5000
          /\ probe.status = "Standard" <=> probe.estimate <= 5000
          /\ probe.estimate = 5000 => probe.status = "Standard"
          /\ probe.estimate = 5001 => probe.status = "VIP PRIORITY"
    /\ probe.fn = "calculateUKEstimate" =>
          /\ probe.result.projectStatus = "VIP PRIORITY" <=> probe.result.estimate > 5000
          /\ probe.result.projectStatus = "Standard" <=> probe.result.estimate <= 5000

\* An estimate of exactly 5000, classified Standard.
StandardAtThreshold ==
    /\ probe.fn = "determineProjectStatus"
    /\ probe.estimate = 5000
    /\ probe.status = "Standard"

\* --------------------------------------------------------------------- C28

\* C28: the range is the point estimate less and plus 10%, each bound rounded to the
\* pound by itself: lowerBound = round(0.9 x estimate), upperBound =
\* round(1.1 x estimate), and lowerBound <= estimate <= upperBound.
RangeTenPercentEitherSide ==
    probe.fn = "calculateUKEstimate" =>
        LET result == probe.result
        IN  /\ result.lowerBound = (2 * 90 * result.estimate + 100) \div 200
            /\ result.upperBound = (2 * 110 * result.estimate + 100) \div 200
            /\ result.lowerBound <= result.estimate
            /\ result.estimate <= result.upperBound

\* An estimate of 18845: 16960.5 rounds to 16961 and 20729.5 to 20730.
BoundsRoundedApart ==
    /\ probe.fn = "calculateUKEstimate"
    /\ probe.result.estimate = 18845
    /\ probe.result.lowerBound = 16961
    /\ probe.result.upperBound = 20730

\* --------------------------------------------------------------------- C29

\* C29: whenever the reply to the question about a field is one of the values
\* getFallbackQuickReplies offers for that field, the local extraction merged into the
\* state sets the field, the turn counts as understood and the field is set after
\* the turn.
QuickReplyAlwaysUnderstood ==
    [][(IsTurn /\ last'.input \in getFallbackQuickReplies(last'.asked, state)) =>
          /\ \A merged \in MergedLocally : AskedFieldSet(merged)
          /\ last'.branch = "understood"
          /\ StageFilled(last'.asked, state')]_vars

\* The button "3+ gates" pressed at the gate count question while the remote call
\* fails: no gate count is set, a retry is counted and the buttons are shown again.
ThreeGatesNotUnderstood ==
    /\ last.asked = "gateCount"
    /\ last.input = "three gates"
    /\ last.input \in getFallbackQuickReplies("gateCount", state)
    /\ last.remote = "rejected"
    /\ last.branch = "retry"
    /\ state.gateCount = NullN
    /\ state.retryCount.gateCount >= 1
    /\ quickReplies = "gateCount"

\* --------------------------------------------------------------------- C30

\* C30: for the reply of every turn, if the local extraction has a length and a
\* width it has no area, also when the reply mentions fencing.
LengthAndWidthWithoutArea ==
    [][IsTurn =>
          \A e \in {localExtraction[last'.input]} :
             (e.length_m # UndefN /\ e.width_m # UndefN) => e.area_m2 = UndefN]_vars

\* "5m by 3m fence" extracted: a length of 5, a width of 3 and an area of 5, which
\* the merge stores as the area.
FenceGivesAreaToo ==
    /\ last.input = "5m by 3m fence"
    /\ localExtraction[last.input].length_m = 50
    /\ localExtraction[last.input].width_m = 30
    /\ localExtraction[last.input].area_m2 = 50
    /\ last.asked = "dimensions"
    /\ state.length_m = 50 /\ state.width_m = 30 /\ state.area_m2 = 50

\* --------------------------------------------------------------------- C31

\* C31: a reply whose number is below 3.0 and which has no height vocabulary is not
\* taken as a deck height by the extractor, and an area given with that number is
\* extracted as the area.
SmallNumberIsNotAHeight ==
    [][(IsTurn /\ TurnInput.num > 0 /\ TurnInput.num < 30
               /\ TurnInput.kw \cap {"height:kw", "height:low", "height:actually"} = {}) =>
          \A e \in {localExtraction[last'.input]} :
             /\ e.deckHeight_m = UndefN
             /\ state'.deckHeight_m = state.deckHeight_m
             /\ TurnInput.areaNum # UndefN => e.area_m2 = TurnInput.areaNum]_vars

\* "2 square meters" answered to the dimensions question of a patio project while the
\* remote call fails: extracted as a deck height of 2 and no area, so no area is
\* stored and a retry is counted.
SmallAreaTakenAsHeight ==
    /\ last.asked = "dimensions"
    /\ last.input = "2 square meters"
    /\ last.remote = "rejected"
    /\ localExtraction[last.input].deckHeight_m = 20
    /\ localExtraction[last.input].area_m2 = UndefN
    /\ state.service = "hardscaping"
    /\ state.area_m2 = NullN
    /\ state.deckHeight_m = NullN
    /\ last.branch = "retry"

\* --------------------------------------------------------------------- C32

\* C32: in every reachable conversation state, when getNextQuestion has nothing left
\* to ask, isReadyForEstimate is true, so the turn goes on to the estimate.
NothingLeftToAskMeansReady ==
    getNextQuestion(state) = "none" => isReadyForEstimate(state)

\* Only a width was captured (from a remote answer): every question has been answered,
\* the score stays below the threshold, and the turn ends in the fallback reply.
DeadEndWithWidthOnly ==
    /\ state.width_m # NullN
    /\ state.length_m = NullN
    /\ state.area_m2 = NullN
    /\ state.userBudget # NullN
    /\ state.postalCode # Null
    /\ getNextQuestion(state) = "none"
    /\ ~isReadyForEstimate(state)
    /\ last.asked = "userBudget"
    /\ last.branch = "understood"
    /\ last.reply = "tellmore"

\* --------------------------------------------------------------------- C33

\* C33: in every reachable conversation state the stored certaintyLevel is
\* calculateCertainty of that same state.
StoredScoreIsCurrent ==
    state.certaintyLevel = calculateCertainty(state)

\* A turn that counted a retry and one that accepted the postcode as typed, each after
\* the score had left 0.
ScoreCurrentAfterRetry ==
    /\ last.branch \in {"retry", "forced"}
    /\ state.certaintyLevel > 0
    /\ state.certaintyLevel = calculateCertainty(state)

\* --------------------------------------------------------------------- C34

\* C34: whenever lastQuestionField is non-null it is the field detectCurrentField
\* returns for that state, so the merge and the retry check of the next turn use the
\* same asked field.
RetriedFieldIsCurrentField ==
    state.lastQuestionField # Null => state.lastQuestionField = detectCurrentField(state)

\* "5m by 3m fence" answered to the overgrown question of a mowing project, extracted
\* locally: the service becomes fencing, the retry is counted for overgrown, and the
\* field the next turn's handler asks for is the excavator access.
RetriedFieldOfAnotherService ==
    /\ last.asked = "overgrown"
    /\ last.input = "5m by 3m fence"
    /\ last.remote = "skipped"
    /\ last.branch = "retry"
    /\ state.service = "fencing"
    /\ state.lastQuestionField = "overgrown"
    /\ detectCurrentField(state) = "excavatorAccess"
    /\ MergeCurrentField(state) = "overgrown"

\* --------------------------------------------------------------------- C35

\* C35: every gate count the extractor emits, 0 for "no gates" included, is stored by
\* the merge as the known gate count.
EveryGateCountStored ==
    [][(IsTurn /\ last'.remote \in {"skipped"} \cup RemoteFailures) =>
          \A e \in {localExtraction[last'.input]} :
             e.gateCount # UndefN => state'.gateCount = e.gateCount]_vars

\* "no gates" answered to the gate question of a fencing project: a count of 0 is
\* extracted, the stored count stays unknown, a retry is counted and the gate
\* question is the next one again.
NoGatesNotStored ==
    /\ last.asked = "gateCount"
    /\ last.input = "no gates"
    /\ localExtraction[last.input].gateCount = 0
    /\ state.service = "fencing"
    /\ state.gateCount = NullN
    /\ last.branch = "retry"
    /\ getNextQuestion(state) = "gateCount"
    /\ ~isReadyForEstimate(state)

\* --------------------------------------------------------------------- C36

\* C36: in every reachable state of the intake machine, context.currentPhase is the
\* number of the active state (5 for complete), the record of every phase before the
\* active one is stored, and in complete buildProjectInputs does not throw.
PhaseNumberAndRecordsAgree ==
    /\ intake.context.currentPhase = PhaseNumber(intake.value)
    /\ \A k \in 1..4 : k < PhaseNumber(intake.value) => Records(intake)[k].object
    /\ intake.value = "complete" => buildProjectInputs(intake.context) # {}

\* The machine in complete after the material submission, its inputs built.
CompleteWithInputs ==
    /\ intake.value = "complete"
    /\ intake.event.type = "SUBMIT_MATERIAL"
    /\ intake.context.currentPhase = 5
    /\ \E built \in buildProjectInputs(intake.context) : built.area_m2 > 0

\* --------------------------------------------------------------------- C37

\* C37 as stated: every submitted non-empty user message appends one user message
\* and sets isProcessing, the end of its turn (processed or thrown) appends one agent
\* message after it and clears isProcessing, and no step removes or reorders a
\* message.
EveryNonEmptyMessageAnswered ==
    [][LET before == chat.messageHistory
           after == chat'.messageHistory
       IN  /\ Len(after) >= Len(before)
           /\ SubSeq(after, 1, Len(before)) = before
           /\ (chat'.event.type = "submit" /\ chat.input \notin {"", " "}) =>
                 /\ after = before \o <<[role |-> "user", content |-> chat.input]>>
                 /\ chat'.isProcessing
           /\ chat'.event.type \in {"processed", "threw"} =>
                 /\ Len(after) = Len(before) + 1
                 /\ before[Len(before)] = [role |-> "user", content |-> chat'.event.value]
                 /\ after[Len(after)].role = "agent"
                 /\ ~chat'.isProcessing
           /\ chat'.event.type = "type" => after = before /\ ~chat'.isProcessing]_vars

\* C37: every submitted user message that is not empty once trimmed and sanitized
\* appends one user message and sets isProcessing, the end of its turn (processed or
\* thrown) appends one agent message after it and clears isProcessing, and no step
\* removes or reorders a message.
EverySanitizedMessageAnswered ==
    [][LET before == chat.messageHistory
           after == chat'.messageHistory
       IN  /\ Len(after) >= Len(before)
           /\ SubSeq(after, 1, Len(before)) = before
           /\ (chat'.event.type = "submit" /\ chat.input \notin {"", " ", "<script></script>"}) =>
                 /\ after = before \o <<[role |-> "user", content |-> chat.input]>>
                 /\ chat'.isProcessing
           /\ chat'.event.type \in {"processed", "threw"} =>
                 /\ Len(after) = Len(before) + 1
                 /\ before[Len(before)] = [role |-> "user", content |-> chat'.event.value]
                 /\ after[Len(after)].role = "agent"
                 /\ ~chat'.isProcessing
           /\ chat'.event.type = "type" => after = before /\ ~chat'.isProcessing]_vars

\* A turn whose processing threw: the user message, then the apology, and the
\* controls enabled again.
ThrownTurnAnswered ==
    /\ chat.event = [type |-> "threw", value |-> "patio"]
    /\ chat.messageHistory =
          <<[role |-> "agent", content |-> "greeting"], [role |-> "user", content |-> "patio"],
            [role |-> "agent", content |-> "sorry"]>>
    /\ ~chat.isProcessing
    /\ state.service = Null

\* --------------------------------------------------------------------- C38

\* C38: the turn a quick reply triggers is processed with the value of that quick
\* reply as the user's message.
QuickReplySendsItsValue ==
    [][chat'.event.type = "quickReply" =>
          /\ chat'.messageHistory =
                chat.messageHistory \o <<[role |-> "user", content |-> chat'.event.value]>>
          /\ chat'.sending = chat'.event.value
          /\ chat'.isProcessing]_vars

\* A quick reply selected while the box was empty: no message is appended, no turn
\* is started, and the value is left in the box.
QuickReplyDropped ==
    /\ chat.event.type = "quickReply"
    /\ chat.input = chat.event.value
    /\ chat.messageHistory[Len(chat.messageHistory)].role = "agent"
    /\ ~chat.isProcessing
    /\ chat.sending = ""

\* --------------------------------------------------------------------- C39

\* C39: in every reachable conversation state a stored deck height implies that the
\* service is decking.
DeckHeightOnlyForDecking ==
    state.deckHeight_m # NullN => state.service = "decking"

\* "patio" answered in a decking conversation whose deck height is stored: the
\* service becomes hardscaping and the height stays, so the inputs generateEstimate
\* builds for the patio carry a deck height.
DeckHeightKeptForPatio ==
    /\ last.input = "patio"
    /\ last.asked \notin {"service", "none"}
    /\ state.service = "hardscaping"
    /\ state.deckHeight_m # NullN
    /\ EstimateInputs(state).service = "hardscaping"
    /\ EstimateInputs(state).deckHeight_m = state.deckHeight_m

====
